---- MODULE Spec2Model ----
(***************************************************************************)
(* vedirect_m8: decoder of the Victron Energy VE.Direct text protocol.     *)
(*                                                                         *)
(* A bytes object is a sequence of byte codes (b'' is <<>>, b'A' is        *)
(* <<65>>), a str is the sequence of its character codes, and a Python     *)
(* dict is a function from keys to values.                                 *)
(***************************************************************************)
EXTENDS Integers, Sequences, FiniteSets, TLC

VARIABLES
    helper,      \* VedirectReaderHelper: state, key, value, bytes_sum, dict
    max_blocks,  \* VedirectReaderHelper.max_blocks
    ser,         \* bytes the serial port will still deliver (self._com.ser)
    ret,         \* outcome of the last call of get_serial_packet / input_read
    counter,     \* VeCounters: byte, packet, packet_errors, block_errors,
                 \* timeout_errors
    call,        \* the call of read_data_single: where it is, its parameters,
                 \* its timer, what it returned or raised
    clock,       \* time.time(), counted from the timer's set_start
    other,       \* a second reader run on the same line (SpecPair)
    fed,         \* history: the bytes passed to input_read since the last
                 \* reset (decoder specifications) or since the first call
                 \* (SpecSync): how many, their sum, whether a hex marker
                 \* was among them
    resets,      \* history of the decoder specifications: calls of
                 \* reset_data_read made by the caller
    cb,          \* the call of read_data_callback: where it is, its options,
                 \* its counters, history: the packets passed to the callback
    ctl,         \* VedirectController: the configuration and the handle of
                 \* its SerialConnection, where its search for a port is,
                 \* history: the last enumeration and the last call
    app,         \* VePacketsApp: _data_cache, _min_interval, time.time(),
                 \* history: the last call
    tests,       \* SerialTestHelper: _tests, history: the inputs and the
                 \* last call
    scen         \* history: what the simulator wrote on the serial line

vars == <<helper, max_blocks, ser, ret, counter, call, clock, other, fed,
          resets, scen, cb, ctl, app,
          tests>>

-----------------------------------------------------------------------------
(* Bounds of the model *)

\* fields of a simulated packet
MaxFields == 3

\* bytes of its own choice a caller slips between the bytes of a frame
MaxFree == 2

\* the largest timeout of a call of read_data_single, in ticks of the clock
MaxTimeout == 1

\* the largest error budget of a call of read_data_single
MaxBudget == 1

\* MAX_COUNTER_VALUE (1000000000 in core/helpers.py), scaled down
MAX_COUNTER_VALUE == 2


-----------------------------------------------------------------------------
(* VedirectReaderHelper *)

\* _delimiters
Header1 == 13
Header2 == 10
HexMarker == 58
Delimiter == 9

\* (HEX, WAIT_HEADER, IN_KEY, IN_VALUE, IN_CHECKSUM) = range(5)
HEX == 0
WAIT_HEADER == 1
IN_KEY == 2
IN_VALUE == 3
IN_CHECKSUM == 4

\* the str 'Checksum'
ChecksumKey == <<67, 104, 101, 99, 107, 115, 117, 109>>

\* max_blocks is None
NoneBlocks == 0

EmptyDict == [k \in {} |-> <<>>]

\* self.dict[key] = value
DictSet(d, k, v) == [x \in (DOMAIN d) \cup {k} |-> IF x = k THEN v ELSE d[x]]

\* len(self.dict)
DictLen(d) == Cardinality(DOMAIN d)

has_free_block(h, mb) ==
    mb = NoneBlocks \/ DictLen(h.dict) <= mb

\* VedirectReaderHelper.__init__
NewHelper ==
    [state |-> WAIT_HEADER, key |-> <<>>, value |-> <<>>, bytes_sum |-> 0,
     dict |-> EmptyDict]

\* reset_data_read, the dict forgotten
reset_data_read_keeps_dict(h) ==
    [h EXCEPT !.key = <<>>, !.value = <<>>, !.bytes_sum = 0,
              !.state = WAIT_HEADER]

\* reset_data_read, the sum forgotten
reset_data_read_keeps_sum(h) ==
    [h EXCEPT !.key = <<>>, !.value = <<>>, !.state = WAIT_HEADER,
              !.dict = EmptyDict]

reset_data_read(h) ==
    [h EXCEPT !.key = <<>>, !.value = <<>>, !.bytes_sum = 0,
              !.state = WAIT_HEADER, !.dict = EmptyDict]

is_unexpected_header(h, data) ==
    \/ (h.state = IN_KEY /\ (data = Header1 \/ data = Header2))
    \/ (h.state = IN_VALUE /\ data = Header2)

\* byte.decode('ascii') succeeds
IsAscii(data) == data < 128

\* What a helper method hands back to input_read: the helper after the call,
\* the returned packet (ok = TRUE only when a dict is returned) and the
\* exception raised ("" when none).
Step(h, exc) == [h |-> h, packet |-> EmptyDict, ok |-> FALSE, exc |-> exc]

\* run_wait_header without self.bytes_sum += byte
run_wait_header_unsummed(h, data) ==
    IF data = Header1 THEN Step([h EXCEPT !.state = WAIT_HEADER], "")
    ELSE IF data = Header2 THEN Step([h EXCEPT !.state = IN_KEY], "")
    ELSE Step(h, "")

run_wait_header(h, data) ==
    LET h1 == [h EXCEPT !.bytes_sum = @ + data]
    IN  IF data = Header1 THEN Step([h1 EXCEPT !.state = WAIT_HEADER], "")
        ELSE IF data = Header2 THEN Step([h1 EXCEPT !.state = IN_KEY], "")
        ELSE Step(h1, "")

\* run_in_key without the test on the key 'Checksum'
run_in_key_stores_checksum(h, data) ==
    LET h1 == [h EXCEPT !.bytes_sum = @ + data]
    IN  IF data = Delimiter
        THEN Step([h1 EXCEPT !.state = IN_VALUE], "")
        ELSE IF IsAscii(data)
             THEN Step([h1 EXCEPT !.key = Append(@, data)], "")
             ELSE Step(h1, "UnicodeDecodeError")

run_in_key(h, data) ==
    LET h1 == [h EXCEPT !.bytes_sum = @ + data]
    IN  IF data = Delimiter
        THEN IF h1.key = ChecksumKey
             THEN Step([h1 EXCEPT !.state = IN_CHECKSUM], "")
             ELSE Step([h1 EXCEPT !.state = IN_VALUE], "")
        ELSE IF IsAscii(data)
             THEN Step([h1 EXCEPT !.key = Append(@, data)], "")
             ELSE Step(h1, "UnicodeDecodeError")

\* run_in_value without self.value = '' after the field is stored
run_in_value_keeps_value(h, mb, data) ==
    LET h1 == [h EXCEPT !.bytes_sum = @ + data]
    IN  IF data = Header1
        THEN IF ~has_free_block(h1, mb)
             THEN Step(h1, "PacketReadException")
             ELSE Step([h1 EXCEPT !.state = WAIT_HEADER,
                                  !.dict = DictSet(@, h1.key, h1.value),
                                  !.key = <<>>], "")
        ELSE IF IsAscii(data)
             THEN Step([h1 EXCEPT !.value = Append(@, data)], "")
             ELSE Step(h1, "UnicodeDecodeError")

run_in_value(h, mb, data) ==
    LET h1 == [h EXCEPT !.bytes_sum = @ + data]
    IN  IF data = Header1
        THEN IF ~has_free_block(h1, mb)
             THEN Step(h1, "PacketReadException")
             ELSE Step([h1 EXCEPT !.state = WAIT_HEADER,
                                  !.dict = DictSet(@, h1.key, h1.value),
                                  !.key = <<>>,
                                  !.value = <<>>], "")
        ELSE IF IsAscii(data)
             THEN Step([h1 EXCEPT !.value = Append(@, data)], "")
             ELSE Step(h1, "UnicodeDecodeError")

\* run_in_checksum without the test of the sum
run_in_checksum_unchecked(h, data) ==
    LET h1 == [h EXCEPT !.bytes_sum = @ + data, !.key = <<>>, !.value = <<>>,
                        !.state = WAIT_HEADER]
    IN  [h |-> [h1 EXCEPT !.bytes_sum = 0], packet |-> h1.dict,
         ok |-> TRUE, exc |-> ""]

run_in_checksum(h, data) ==
    LET h1 == [h EXCEPT !.bytes_sum = @ + data, !.key = <<>>, !.value = <<>>,
                        !.state = WAIT_HEADER]
    IN  IF h1.bytes_sum % 256 = 0
        THEN [h |-> [h1 EXCEPT !.bytes_sum = 0], packet |-> h1.dict,
              ok |-> TRUE, exc |-> ""]
        ELSE Step(h1, "PacketReadException")

run_in_hex(h, data) ==
    LET h1 == [h EXCEPT !.bytes_sum = 0]
    IN  IF data = Header1 THEN Step([h1 EXCEPT !.state = WAIT_HEADER], "")
        ELSE Step(h1, "")

-----------------------------------------------------------------------------
(* Vedirect.input_read *)

\* The outcome of input_read(byte): the helper after the call, the value
\* returned (kind "None" or "packet"), or the exception raised (kind
\* "PacketReadException" or "InputReadException"); read = TRUE when the call
\* itself took a byte from the serial port: the message of the
\* unexpected-header error is built from self._com.ser.read(1), and when that
\* read raises (port_fails), the SerialException is re-raised as an
\* InputReadException.
Outcome(h, kind, packet, read) ==
    [h |-> h, kind |-> kind, packet |-> packet, read |-> read]

Dispatch(h, mb, data) ==
    IF h.state = WAIT_HEADER THEN run_wait_header(h, data)
    ELSE IF h.state = IN_KEY THEN run_in_key(h, data)
    ELSE IF h.state = IN_VALUE THEN run_in_value(h, mb, data)
    ELSE IF h.state = IN_CHECKSUM THEN run_in_checksum(h, data)
    ELSE IF h.state = HEX THEN run_in_hex(h, data)
    ELSE Step(h, "AssertionError")

\* input_read once ord(byte) has given ord_byte
InputReadOrd(h, mb, ord_byte, port_fails) ==
    IF is_unexpected_header(h, ord_byte)
    THEN IF port_fails
         THEN Outcome(h, "InputReadException", EmptyDict, FALSE)
         ELSE Outcome(h, "PacketReadException", EmptyDict, TRUE)
    ELSE LET h1 == IF ord_byte = HexMarker /\ h.state # IN_CHECKSUM
                   THEN [h EXCEPT !.state = HEX]
                   ELSE h
             s == Dispatch(h1, mb, ord_byte)
         IN  IF s.exc = "PacketReadException"
             THEN Outcome(s.h, "PacketReadException", EmptyDict, FALSE)
             ELSE IF s.exc # ""
             THEN Outcome(s.h, "InputReadException", EmptyDict, FALSE)
             ELSE IF s.ok
             THEN Outcome(s.h, "packet", s.packet, FALSE)
             ELSE Outcome(s.h, "None", EmptyDict, FALSE)

\* input_read returning None on an empty bytes object
input_read_skips_empty(h, mb, byte, port_fails) ==
    IF Len(byte) # 1
    THEN Outcome(h, "None", EmptyDict, FALSE)
    ELSE InputReadOrd(h, mb, byte[1], port_fails)

input_read(h, mb, byte, port_fails) ==
    IF Len(byte) # 1
    THEN \* ord(byte) raises TypeError
         Outcome(h, "InputReadException", EmptyDict, FALSE)
    ELSE InputReadOrd(h, mb, byte[1], port_fails)

-----------------------------------------------------------------------------
(* Vedirectsim.convert: a packet (the fields of a dict, in iteration order)  *)
(* as VE.Direct bytes.                                                      *)

RECURSIVE SumSeq(_)
SumSeq(s) == IF s = <<>> THEN 0 ELSE Head(s) + SumSeq(Tail(s))

RECURSIVE ConvertFields(_)
ConvertFields(pkt) ==
    IF pkt = <<>> THEN <<>>
    ELSE <<Header1, Header2>> \o Head(pkt)[1] \o <<Delimiter>> \o Head(pkt)[2]
         \o ConvertFields(Tail(pkt))

\* the frame up to and including 'Checksum\t'
ConvertBody(pkt) ==
    ConvertFields(pkt) \o <<Header1, Header2>> \o ChecksumKey \o <<Delimiter>>

convert(pkt) ==
    LET result == ConvertBody(pkt)
    IN  Append(result, (256 - (SumSeq(result) % 256)) % 256)

\* the dict whose items are the fields of pkt
AsDict(pkt) ==
    [k \in {pkt[i][1] : i \in DOMAIN pkt} |->
        pkt[CHOOSE i \in DOMAIN pkt : pkt[i][1] = k][2]]

-----------------------------------------------------------------------------
(* The serial line of the decoder specification: what the simulator wrote.  *)

\* The fields a simulated packet is made of: three plain fields, a field
\* whose key is 'Checksum', a field with a non-ASCII key and one with a
\* non-ASCII value.
Fields ==
    { <<(<<65>>), (<<49>>)>>,
      <<(<<66>>), (<<>>)>>,
      <<(<<86>>), (<<49, 50>>)>>,
      <<ChecksumKey, (<<49>>)>>,
      <<(<<233>>), (<<49>>)>>,
      <<(<<72>>), (<<233>>)>> }

RECURSIVE SeqsUpTo(_, _)
SeqsUpTo(S, n) ==
    IF n = 0 THEN {<<>>}
    ELSE LET shorter == SeqsUpTo(S, n - 1)
         IN  shorter \cup {Append(q, x) : q \in shorter, x \in S}

\* a dict has no key twice
DistinctKeys(pkt) ==
    \A i, j \in DOMAIN pkt : pkt[i][1] = pkt[j][1] => i = j

Packets == {pkt \in SeqsUpTo(Fields, MaxFields) : DistinctKeys(pkt)}

Chars(str) == {str[i] : i \in DOMAIN str}

\* ASCII keys and values, no field named 'Checksum'
WirePacketFields(pkt) ==
    \A i \in DOMAIN pkt :
        /\ pkt[i][1] # ChecksumKey
        /\ \A c \in Chars(pkt[i][1]) \cup Chars(pkt[i][2]) : IsAscii(c)

\* hex frames of the device: ':' ... '\n'
HexFrames == { <<HexMarker, 65, Header2>>, <<HexMarker, 65, Header1, Header2>> }

\* the frame that follows on the line
NextPacket == << <<(<<80>>), (<<55>>)>> >>

\* the checksum byte with its low bit flipped
FlipLowBit(b) == IF b % 2 = 0 THEN b + 1 ELSE b - 1

\* the frame of pkt as the simulator writes it, its checksum byte good,
\* with the low bit flipped, or off by two
Frame(pkt, ck) ==
    LET good == convert(pkt)
        b == good[Len(good)]
    IN  IF ck = "good" THEN good
        ELSE IF ck = "flip" THEN Append(ConvertBody(pkt), FlipLowBit(b))
        ELSE Append(ConvertBody(pkt), (b + 2) % 256)

\* What is on the line: a hex frame or nothing (pre), the frame of pkt with
\* its checksum byte as ck says, and NextPacket's frame or nothing (follow).
Scenarios ==
    [pkt : Packets, pre : {<<>>} \cup HexFrames, ck : {"good", "flip", "off"},
     follow : BOOLEAN]

Line(sc) ==
    sc.pre \o Frame(sc.pkt, sc.ck)
    \o (IF sc.follow THEN convert(NextPacket) ELSE <<>>)

NoFed == [n |-> 0, sum |-> 0, hex |-> FALSE]

\* history of one more byte passed to input_read
FedMore(f, byte) ==
    [n |-> f.n + 1,
     sum |-> IF byte = <<>> THEN f.sum ELSE f.sum + byte[1],
     hex |-> f.hex \/ byte = <<HexMarker>>]

NoRet == [kind |-> "", packet |-> EmptyDict]

MaxBlocksValues == {NoneBlocks, 1, 2}

\* VeCounters.__init__
NewCounters ==
    [byte |-> 0, packet |-> 0, packet_errors |-> 0, block_errors |-> 0,
     timeout_errors |-> 0]

\* read_data_single has not been called
NoCall ==
    [pc |-> "idle", exc |-> "", packet |-> EmptyDict, event |-> "",
     timeout |-> 0, max_block_errors |-> 0, max_packet_errors |-> 0, now |-> 0]

\* no second reader
NoOther == <<>>

\* serial_port = None
NoPort == 0

\* no call of the controller yet
NoLast ==
    [op |-> "", port |-> NoPort, result |-> FALSE, exc |-> "",
     before |-> [serial_port |-> NoPort, timeout |-> 0],
     ser_before |-> [port |-> NoPort, is_open |-> FALSE, timeout |-> 0]]

\* no VedirectController
\* read_data_to_test has not been called
NoProbe ==
    [pc |-> "idle", i |-> 0, is_none |-> TRUE, result |-> EmptyDict,
     packets |-> <<>>, reads |-> 0, swallowed |-> 0, exc |-> ""]

NoController ==
    [conf |-> [serial_port |-> NoPort, timeout |-> 0],
     ser |-> [port |-> NoPort, is_open |-> FALSE, timeout |-> 0],
     pc |-> "idle", exc |-> "", timeout |-> 0, ports |-> <<>>,
     last |-> NoLast, probe |-> NoProbe,
     handles |-> 0, peak |-> 0, opened |-> FALSE]

\* _data_cache = None
NoCache == <<>>

\* no call of the application yet
NoAppCall ==
    [op |-> "", now |-> 0, result |-> FALSE, data |-> EmptyDict,
     is_cache |-> FALSE, exc |-> "", before |-> NoCache]

\* accepted_keys = None
NoKeys == {}

\* no call of set_loop_packet_stats yet
NoStatsCall ==
    [index |-> 0, packet |-> EmptyDict, result |-> FALSE, exc |-> "",
     before |-> <<>>, calls |-> 0]

\* PacketStats of a VePacketsApp not yet constructed
NoStats ==
    [nb_packets |-> 0, stats |-> <<>>, accepted_keys |-> NoKeys,
     max_read_error |-> 0, serial_read_errors |-> 0, nb_bad_packets |-> 0,
     call |-> NoStatsCall, configured |-> 0, initialised |-> FALSE]

\* no round of reads under way
NoRound ==
    [pc |-> "idle", i |-> 0, nb_packets |-> 0, now |-> 0, before |-> NoCache,
     packets |-> <<>>, raised |-> 0, raised_after |-> 0, reads |-> 0,
     merged_at |-> 0, rounds |-> 0, errors_before |-> 0,
     stored |-> EmptyDict]

\* no VePacketsApp
NoApp == [data_cache |-> NoCache, min_interval |-> 0, now |-> 0,
          last |-> NoAppCall, packets_stats |-> NoStats, rd |-> NoRound]

\* None
None == <<-1>>

\* self._tests = None
NoTests == <<>>

\* no SerialTestHelper
NoTester ==
    [tests |-> NoTests, data |-> NoTests, serial_data |-> EmptyDict,
     last |-> [op |-> "", result |-> FALSE, exc |-> "", before |-> NoTests]]

\* read_data_callback has not been called
NoCallback ==
    [pc |-> "idle", exc |-> "", timeout |-> 0, max_loops |-> 0,
     max_packet_errors |-> 0, callback_packets |-> 0,
     callback_packet_errors |-> 0, calls |-> <<>>]

\* the decoder specifications make no call of read_data_single
NoReader ==
    /\ counter = NewCounters
    /\ call = NoCall
    /\ clock = 0
    /\ other = NoOther

InitFeed ==
    /\ NoReader
    /\ max_blocks \in MaxBlocksValues
    /\ tests = NoTester
    /\ app = NoApp
    /\ ctl = NoController
    /\ cb = NoCallback
    /\ helper = NewHelper
    /\ scen \in Scenarios
    /\ ser = Line(scen)
    /\ ret = NoRet
    /\ fed = NoFed
    /\ resets = 0

\* Vedirect.get_serial_packet: one byte from the serial port to input_read
GetSerialPacket ==
    /\ ser # <<>>
    /\ ret.kind \in {"", "None"}
    /\ LET byte == <<Head(ser)>>
           o == input_read(helper, max_blocks, byte, FALSE)
           rest == Tail(ser)
       IN  /\ helper' = o.h
           /\ ret' = [kind |-> o.kind, packet |-> o.packet]
           /\ ser' = IF o.read /\ rest # <<>> THEN Tail(rest) ELSE rest
           /\ fed' = FedMore(fed, byte)
    /\ UNCHANGED <<tests, app, ctl, cb, max_blocks, resets, scen, counter, call, clock, other>>

\* the caller's reset_data_read after a packet or an exception
ResetDataRead ==
    /\ ret.kind \notin {"", "None"}
    /\ helper' = reset_data_read(helper)
    /\ ret' = NoRet
    /\ fed' = NoFed
    /\ resets' = resets + 1
    /\ UNCHANGED <<tests, app, ctl, cb, max_blocks, ser, scen, counter, call, clock, other>>

NextFeed == GetSerialPacket \/ ResetDataRead

SpecFeed == InitFeed /\ [][NextFeed]_vars

-----------------------------------------------------------------------------
(* The decoder called by a caller that chooses the bytes (SpecFree): it     *)
(* passes the bytes of a frame in order and, anywhere between them, up to   *)
(* MaxFree bytes of its own choice, until a call returns a packet or raises.*)

IsPrefix(p, q) == Len(p) <= Len(q) /\ SubSeq(q, 1, Len(p)) = p

\* the byte that closes the running sum
ClosingByte(h) == (256 - (h.bytes_sum % 256)) % 256

\* The bytes objects the caller may slip in: the empty one, the delimiters,
\* a letter, a non-ASCII byte, the next letter of 'Checksum', and after
\* 'Checksum\t' the byte that closes the sum or that byte with its low bit
\* flipped.
FreeBytes(h) ==
    {<<>>, <<Header1>>, <<Header2>>, <<HexMarker>>, <<Delimiter>>, <<65>>, <<233>>}
    \cup (IF h.state = IN_KEY /\ IsPrefix(h.key, ChecksumKey) /\ h.key # ChecksumKey
          THEN {<<ChecksumKey[Len(h.key) + 1]>>} ELSE {})
    \cup (IF h.state = IN_CHECKSUM
          THEN {<<ClosingByte(h)>>, <<FlipLowBit(ClosingByte(h))>>} ELSE {})

\* the frames the caller takes its bytes from
FreePackets == {pkt \in Packets : Len(pkt) <= 1 /\ WirePacketFields(pkt)}

InitFree ==
    /\ NoReader
    /\ max_blocks \in MaxBlocksValues
    /\ tests = NoTester
    /\ app = NoApp
    /\ ctl = NoController
    /\ cb = NoCallback
    /\ helper = NewHelper
    /\ \E pkt \in FreePackets :
          scen = [pkt |-> pkt, pre |-> <<>>, ck |-> "good", follow |-> FALSE]
    /\ ser = Line(scen)
    /\ ret = NoRet
    /\ fed = NoFed
    /\ resets = 0

\* the bytes of its own choice the caller has passed so far
FreeFed == fed.n - (Len(Line(scen)) - Len(ser))

\* a call of input_read(byte); the read of the unexpected-header message
\* finds no byte on the port, or raises (port_fails)
InputRead(byte) ==
    /\ ret.kind \in {"", "None"}
    /\ \E port_fails \in BOOLEAN :
          LET o == input_read(helper, max_blocks, byte, port_fails)
          IN  /\ helper' = o.h
              /\ ret' = [kind |-> o.kind, packet |-> o.packet]
              /\ fed' = FedMore(fed, byte)
    /\ UNCHANGED <<tests, app, ctl, cb, max_blocks, resets, scen, counter, call, clock, other>>

\* the next byte of the frame
InputReadFrame ==
    /\ ser # <<>>
    /\ InputRead(<<Head(ser)>>)
    /\ ser' = Tail(ser)

\* a byte of the caller's choice
InputReadFree ==
    /\ FreeFed < MaxFree
    /\ \E byte \in FreeBytes(helper) : InputRead(byte)
    /\ UNCHANGED ser

NextFree == InputReadFrame \/ InputReadFree

SpecFree == InitFree /\ [][NextFree]_vars

-----------------------------------------------------------------------------
(* Claims on the decoder fed from the simulator's serial line (SpecFeed)    *)

DelimiterBytes == {Header1, Header2, HexMarker, Delimiter}

\* keys and values free of the delimiter bytes, at most max_blocks fields
\* (the keys of a dict are distinct)
ClaimedPacket(pkt) ==
    /\ DistinctKeys(pkt)
    /\ \A i \in DOMAIN pkt :
          (Chars(pkt[i][1]) \cup Chars(pkt[i][2])) \cap DelimiterBytes = {}
    /\ (max_blocks # NoneBlocks => Len(pkt) <= max_blocks)

\* ... whose keys and values are ASCII and that has no field named 'Checksum'
WirePacket(pkt) == ClaimedPacket(pkt) /\ WirePacketFields(pkt)

\* the bytes of the first frame on the line
FrameLen == Len(Frame(scen.pkt, scen.ck))

\* in the first frame of a line that starts with it, before any reset
InFirstFrame == scen.pre = <<>> /\ resets = 0 /\ fed.n > 0

\* None on every byte of the frame but the last
NoneUntil(n) == fed.n < n => ret.kind = "None"

\* C1 as claimed: every packet with distinct keys, free of the delimiter
\* bytes and of at most max_blocks fields, encoded by convert and fed byte by
\* byte from the reset state, gives None on every byte but the last and the
\* packet itself on the checksum byte.
C1_RoundTripAsClaimed ==
    (InFirstFrame /\ scen.ck = "good" /\ ClaimedPacket(scen.pkt)) =>
        /\ NoneUntil(FrameLen)
        /\ fed.n = FrameLen =>
              (ret.kind = "packet" /\ ret.packet = AsDict(scen.pkt))

\* C1 amended: the round trip holds for every such packet whose keys and
\* values are ASCII and that has no field named 'Checksum'.
C1_RoundTrip ==
    (InFirstFrame /\ scen.ck = "good" /\ WirePacket(scen.pkt)) =>
        /\ NoneUntil(FrameLen)
        /\ fed.n = FrameLen =>
              (ret.kind = "packet" /\ ret.packet = AsDict(scen.pkt))

C1_Witness ==
    /\ InFirstFrame /\ scen.ck = "good" /\ WirePacket(scen.pkt)
    /\ Len(scen.pkt) = 2
    /\ fed.n = FrameLen
    /\ ret.kind = "packet"

\* C3 as claimed: with max_blocks = k no returned packet has more than k
\* fields, and a frame of k+1 distinct fields raises PacketReadException at
\* the \r that ends its (k+1)-th field, before the checksum byte.
C3_BlockBound ==
    max_blocks # NoneBlocks =>
        /\ ret.kind = "packet" => DictLen(ret.packet) <= max_blocks
        /\ ( /\ InFirstFrame
             /\ DistinctKeys(scen.pkt)
             /\ WirePacketFields(scen.pkt)
             /\ Len(scen.pkt) = max_blocks + 1
             /\ fed.n = Len(ConvertFields(scen.pkt)) + 1 )
           => ret.kind = "PacketReadException"

\* C4: a frame whose checksum byte leaves the sum non-zero modulo 256 gives
\* None on every byte but the last, PacketReadException on the checksum
\* byte and no packet; after the reset the frame that follows on the line is
\* delivered unchanged.
C4_BadChecksum ==
    (scen.pre = <<>> /\ scen.ck # "good" /\ WirePacket(scen.pkt) /\ fed.n > 0) =>
        /\ resets = 0 =>
              /\ NoneUntil(FrameLen)
              /\ fed.n = FrameLen => ret.kind = "PacketReadException"
        /\ resets = 1 =>
              /\ scen.follow
              /\ NoneUntil(Len(convert(NextPacket)))
              /\ fed.n = Len(convert(NextPacket)) =>
                    (ret.kind = "packet" /\ ret.packet = AsDict(NextPacket))
        /\ resets <= 1

C4_Witness ==
    /\ scen.pre = <<>> /\ scen.ck = "flip" /\ WirePacket(scen.pkt)
    /\ Len(scen.pkt) = 2
    /\ resets = 1
    /\ ret.kind = "packet"

\* C5 as claimed: a hex frame in front of a well-formed text frame is
\* skipped, and the text frame, its checksum computed over its own bytes
\* only, is delivered.
C5_HexInterleave ==
    (scen.pre \in HexFrames /\ scen.ck = "good" /\ WirePacket(scen.pkt)
     /\ resets = 0 /\ fed.n > 0) =>
        /\ NoneUntil(Len(scen.pre) + FrameLen)
        /\ fed.n = Len(scen.pre) + FrameLen =>
              (ret.kind = "packet" /\ ret.packet = AsDict(scen.pkt))

-----------------------------------------------------------------------------
(* Claims on the decoder called with bytes of the caller's choice (SpecFree) *)

\* C2: for every sequence of bytes without a hex marker passed to input_read
\* from the reset state, if the call with the last byte returns a packet,
\* the sum of all the bytes is 0 modulo 256.
C2_ChecksumClosure ==
    (ret.kind = "packet" /\ ~fed.hex) => fed.sum % 256 = 0

C2_Witness ==
    /\ ret.kind = "packet" /\ ~fed.hex
    /\ FreeFed = MaxFree
    /\ DictLen(ret.packet) = 1
    /\ ser # <<>>

-----------------------------------------------------------------------------
(* Vedirect.read_data_single (Spec).                                        *)
(*                                                                          *)
(* The parameters are the arguments of the call (timeout, max_block_errors, *)
(* max_packet_errors), as get_read_data_params returns them for an options  *)
(* dict made of them; the counter key 'single_packet_errors' is never       *)
(* created, so the add_to_key of the PacketReadException handler counts     *)
(* nothing (CountersHelper.add_to_key returns False).                       *)

\* every time above the largest timeout is the same to is_timeout_callback
MaxClock == MaxTimeout + 1

\* timeout = ...
Timeouts == 1..MaxTimeout

\* max_block_errors = ..., max_packet_errors = ...
Budgets == (-1)..MaxBudget

\* CounterHelper.add
CounterAdd(c) == IF c < MAX_COUNTER_VALUE THEN c + 1 ELSE 1

\* is_max_read_error without its first case (max_value == 0)
is_max_read_error_no_zero(max_value, cnt) ==
    max_value > 0 /\ 0 <= cnt /\ cnt <= max_value

is_max_read_error(max_value, cnt) ==
    IF max_value = 0 THEN TRUE
    ELSE max_value > 0 /\ 0 <= cnt /\ cnt <= max_value

\* TimeoutHelper.is_timeout_callback calls its callback (raise_timeout)
is_timeout_callback(timeout, start, now) ==
    LET elapsed == now - start
    IN  0 < timeout /\ timeout < elapsed

\* A reader: the decoder, the serial port, the outcome of the last
\* get_serial_packet, the counters and the call of read_data_single.
Reader(h, s, r, c, k) ==
    [helper |-> h, ser |-> s, ret |-> r, counter |-> c, call |-> k]

\* read_data_single up to its loop: the parameters, the counters reset, the
\* timer started, SerialConnectionException when the port is not ready
Enter(R, timeout, max_block_errors, max_packet_errors, ready) ==
    LET k == [pc |-> "run", exc |-> "", packet |-> EmptyDict, event |-> "",
              timeout |-> timeout, max_block_errors |-> max_block_errors,
              max_packet_errors |-> max_packet_errors, now |-> 0]
    IN  [R EXCEPT !.counter = [@ EXCEPT !.byte = 0, !.block_errors = 0],
                  !.call = IF ready THEN k
                           ELSE [k EXCEPT !.pc = "raise",
                                          !.exc = "SerialConnectionException"]]

\* What self._com.ser.read(1) can do: deliver the next byte of the line
\* ("byte"), return b'' because no byte came in time ("none"), or raise
\* SerialException ("error").
Events(s) == (IF s # <<>> THEN {"byte"} ELSE {}) \cup {"none", "error"}

\* What the read of the unexpected-header message can do, when ev is what
\* the read of get_serial_packet did ("none" stands for no such read).
MessageEvents(h, s, ev) ==
    IF ev = "byte" /\ is_unexpected_header(h, Head(s))
    THEN Events(Tail(s))
    ELSE {"none"}

\* One iteration of the loop of read_data_single at time now: ev is what the
\* read of get_serial_packet does, ev2 what the read of the
\* unexpected-header message does.
Loop(R, mb, ev, ev2, now) ==
    LET k == [R.call EXCEPT !.now = now, !.event = ev]
    IN  IF ev = "error"
        THEN [R EXCEPT !.helper = reset_data_read(@),
                       !.ret = [kind |-> "SerialException", packet |-> EmptyDict],
                       !.call = [k EXCEPT !.pc = "raise",
                                          !.exc = "SerialVeException"]]
        ELSE
        LET byte == IF ev = "byte" THEN <<Head(R.ser)>> ELSE <<>>
            rest == IF ev = "byte" THEN Tail(R.ser) ELSE R.ser
            o == input_read(R.helper, mb, byte, ev2 = "error")
            s == IF o.read /\ ev2 = "byte" /\ rest # <<>> THEN Tail(rest) ELSE rest
            r == [kind |-> o.kind, packet |-> o.packet]
            c == R.counter
        IN  IF o.kind = "packet"
            THEN Reader(reset_data_read(o.h), s, r,
                        [c EXCEPT !.byte = CounterAdd(@), !.packet = CounterAdd(@)],
                        [k EXCEPT !.pc = "return", !.packet = o.packet])
            ELSE IF o.kind = "None"
            THEN Reader(o.h, s, r, [c EXCEPT !.byte = CounterAdd(@)],
                        IF is_timeout_callback(k.timeout, 0, k.now)
                        THEN [k EXCEPT !.pc = "raise",
                                       !.exc = "ReadTimeoutException"]
                        ELSE k)
            ELSE IF o.kind = "InputReadException"
            THEN IF is_max_read_error(k.max_block_errors, c.block_errors)
                 THEN Reader(reset_data_read(o.h), s, r, c,
                             [k EXCEPT !.pc = "raise",
                                       !.exc = "InputReadException"])
                 ELSE Reader(reset_data_read(o.h), s, r,
                             [c EXCEPT !.block_errors = CounterAdd(@)], k)
            ELSE \* PacketReadException
                 IF is_max_read_error(k.max_packet_errors, c.packet_errors)
                 THEN Reader(reset_data_read(o.h), s, r, c,
                             [k EXCEPT !.pc = "raise",
                                       !.exc = "PacketReadException"])
                 ELSE Reader(reset_data_read(o.h), s, r, c, k)

\* the first reader
Self == Reader(helper, ser, ret, counter, call)

Becomes(R) ==
    /\ helper' = R.helper
    /\ ser' = R.ser
    /\ ret' = R.ret
    /\ counter' = R.counter
    /\ call' = R.call

\* what is on the line of the reader
ReaderScenarios ==
    {sc \in Scenarios :
        /\ sc.pkt \in {<<>>, << <<(<<65>>), (<<49>>)>> >>, << <<(<<72>>), (<<233>>)>> >>}
        /\ sc.ck # "off"
        /\ sc.pre = <<>>}

Init ==
    /\ helper = NewHelper
    /\ max_blocks = NoneBlocks
    /\ tests = NoTester
    /\ app = NoApp
    /\ ctl = NoController
    /\ cb = NoCallback
    /\ scen \in ReaderScenarios
    /\ ser = Line(scen)
    /\ ret = NoRet
    /\ counter = NewCounters
    /\ call = NoCall
    /\ clock = 0
    /\ other = NoOther
    /\ fed = NoFed
    /\ resets = 0

\* a call of read_data_single(timeout, max_block_errors, max_packet_errors)
ReadDataSingle ==
    /\ call.pc = "idle"
    /\ \E timeout \in Timeouts, max_block_errors \in Budgets,
          max_packet_errors \in Budgets, ready \in BOOLEAN :
          Becomes(Enter(Self, timeout, max_block_errors, max_packet_errors, ready))
    /\ clock' = 0
    /\ UNCHANGED <<tests, app, ctl, cb, max_blocks, other, fed, resets, scen>>

\* the time some time later
Later(now) == {t \in now..MaxClock : t <= now + 1}

\* an iteration of its loop, some time after the one before
ReadDataSingleLoop ==
    /\ call.pc = "run"
    /\ clock' \in Later(clock)
    /\ \E ev \in Events(ser) : \E ev2 \in MessageEvents(helper, ser, ev) :
          Becomes(Loop(Self, max_blocks, ev, ev2, clock'))
    /\ UNCHANGED <<tests, app, ctl, cb, max_blocks, other, fed, resets, scen>>

Next == ReadDataSingle \/ ReadDataSingleLoop

Spec == Init /\ [][Next]_vars

\* an iteration of the loop after time has passed
ReadDataSingleLoopLater == ReadDataSingleLoop /\ clock' > clock

\* The loop keeps iterating (a read of the port returns within the port's
\* timeout) and time passes.
SpecLive ==
    Spec /\ WF_vars(ReadDataSingleLoop) /\ WF_vars(ReadDataSingleLoopLater)

-----------------------------------------------------------------------------
(* Two calls of read_data_single on the same line, with two pairs of error  *)
(* budgets (SpecPair): the two readers take the same bytes at the same      *)
(* times, until one of the two calls ends.                                  *)

\* what is on the line of the two readers
PairScenarios ==
    {sc \in ReaderScenarios : sc.pkt = << <<(<<65>>), (<<49>>)>> >> /\ sc.follow}

InitPair ==
    /\ helper = NewHelper
    /\ max_blocks = NoneBlocks
    /\ tests = NoTester
    /\ app = NoApp
    /\ ctl = NoController
    /\ cb = NoCallback
    /\ scen \in PairScenarios
    /\ ser = Line(scen)
    /\ ret = NoRet
    /\ counter = NewCounters
    /\ call = NoCall
    /\ clock = 0
    /\ other = Reader(NewHelper, Line(scen), NoRet, NewCounters, NoCall)
    /\ fed = NoFed
    /\ resets = 0

\* both calls
PairReadDataSingle ==
    /\ call.pc = "idle"
    /\ \E timeout \in Timeouts, ready \in BOOLEAN :
       \E b1 \in Budgets, p1 \in Budgets, b2 \in Budgets, p2 \in Budgets :
          /\ Becomes(Enter(Self, timeout, b1, p1, ready))
          /\ other' = Enter(other, timeout, b2, p2, ready)
    /\ clock' = 0
    /\ UNCHANGED <<tests, app, ctl, cb, max_blocks, fed, resets, scen>>

\* an iteration of the loop of each call
PairReadDataSingleLoop ==
    /\ call.pc = "run" /\ other.call.pc = "run"
    /\ clock' \in Later(clock)
    /\ \E ev \in Events(ser) : \E ev2 \in MessageEvents(helper, ser, ev) :
          /\ Becomes(Loop(Self, max_blocks, ev, ev2, clock'))
          /\ other' = Loop(other, max_blocks, ev, ev2, clock')
    /\ UNCHANGED <<tests, app, ctl, cb, max_blocks, fed, resets, scen>>

NextPair == PairReadDataSingle \/ PairReadDataSingleLoop

SpecPair == InitPair /\ [][NextPair]_vars

-----------------------------------------------------------------------------
(* read_data_single called again and again on a line that carries one frame *)
(* over and over, the first call made at any byte of the frame (SpecSync):  *)
(* every read gives the next byte, both budgets are -1, and no call lasts   *)
(* longer than its timeout.  The reader stops once it has the whole packet. *)

\* The packets of the frame: a plain one, one whose first field sums to 0
\* modulo 256, and packets whose checksum byte is \n, \t, \r or ':'.
SyncPackets ==
    { << <<(<<65>>), (<<49>>)>>, <<(<<66>>), (<<>>)>> >>,
      << <<(<<65>>), (<<79, 80>>)>>, <<(<<66>>), (<<49>>)>> >>,
      << <<(<<65>>), (<<66>>)>> >>,
      << <<(<<65>>), (<<67>>)>> >>,
      << <<(<<71>>), (<<57>>)>> >>,
      << <<(<<65>>), (<<90, 90, 94>>)>> >> }

InitSync ==
    /\ helper = NewHelper
    /\ max_blocks = NoneBlocks
    /\ tests = NoTester
    /\ app = NoApp
    /\ ctl = NoController
    /\ cb = NoCallback
    /\ \E pkt \in SyncPackets : \E offset \in 0..(Len(convert(pkt)) - 1) :
          /\ scen = [pkt |-> pkt, pre |-> <<>>, ck |-> "good", follow |-> FALSE,
                     offset |-> offset]
          /\ ser = SubSeq(convert(pkt), offset + 1, Len(convert(pkt)))
    /\ ret = NoRet
    /\ counter = NewCounters
    /\ call = NoCall
    /\ clock = 0
    /\ other = NoOther
    /\ fed = NoFed
    /\ resets = 0

\* the reader has returned the whole packet
Synced == call.pc = "return" /\ call.packet = AsDict(scen.pkt)

\* a call of read_data_single(timeout, -1, -1), the first or the one after a
\* packet that is not the whole one
SyncReadDataSingle ==
    /\ call.pc \in {"idle", "return"}
    /\ ~Synced
    /\ \E timeout \in Timeouts : Becomes(Enter(Self, timeout, -1, -1, TRUE))
    /\ clock' = 0
    /\ UNCHANGED <<tests, app, ctl, cb, max_blocks, other, fed, resets, scen>>

\* the line with the frame once more on it when it runs short
Refilled(R) ==
    IF Len(R.ser) <= 2 THEN [R EXCEPT !.ser = @ \o convert(scen.pkt)] ELSE R

\* an iteration of the loop: the port gives the next byte
SyncReadDataSingleLoop ==
    /\ call.pc = "run"
    /\ clock' \in {t \in Later(clock) : t <= call.timeout}
    /\ Becomes(Loop(Refilled(Self), max_blocks, "byte", "byte", clock'))
    /\ fed' = FedMore(fed, <<Head(ser)>>)
    /\ UNCHANGED <<tests, app, ctl, cb, max_blocks, other, resets, scen>>

NextSync == SyncReadDataSingle \/ SyncReadDataSingleLoop

\* the reader keeps reading
SpecSync == InitSync /\ [][NextSync]_vars /\ WF_vars(NextSync)

-----------------------------------------------------------------------------
(* Vedirect.read_data_callback (SpecCallback), on a line that carries       *)
(* frames one after the other; every read gives the next byte and no call   *)
(* of read_data_single lasts longer than its timeout.                       *)
(*                                                                          *)
(* self._counter is taken for the CountersHelper the method is written for  *)
(* (add_counter_key, add_to_key, is_max_key, get_key_value); VeCounters has *)
(* none of these methods.                                                   *)

\* options['max_loops'] = ...
MaxLoops == MAX_COUNTER_VALUE + 1

\* frames on the line
StreamLen == MaxLoops + 2

\* the packets of the frames, by turns
StreamPackets == << << <<(<<65>>), (<<49>>)>> >>, NextPacket >>

\* the packet of the i-th frame of the line of sc
StreamPacket(sc, i) == StreamPackets[((i + sc.first) % 2) + 1]

\* the frames of the line of sc from the i-th on; the checksum byte of the
\* frame sc.bad, if any, has its low bit flipped
RECURSIVE StreamFrom(_, _)
StreamFrom(sc, i) ==
    IF i > StreamLen THEN <<>>
    ELSE Frame(StreamPacket(sc, i), IF i = sc.bad THEN "flip" ELSE "good")
         \o StreamFrom(sc, i + 1)

\* CounterHelper.is_max
is_max(c, max_counter) == 0 < max_counter /\ max_counter <= c

InitCallback ==
    /\ helper = NewHelper
    /\ max_blocks = NoneBlocks
    /\ tests = NoTester
    /\ app = NoApp
    /\ ctl = NoController
    /\ \E first \in 0..1, bad \in 0..StreamLen :
          scen = [first |-> first, bad |-> bad]
    /\ ser = StreamFrom(scen, 1)
    /\ ret = NoRet
    /\ counter = NewCounters
    /\ call = NoCall
    /\ clock = 0
    /\ other = NoOther
    /\ fed = NoFed
    /\ resets = 0
    /\ cb = NoCallback

\* a call of read_data_callback(callback_function, options) up to its loop
ReadDataCallback ==
    /\ cb.pc = "idle"
    /\ \E timeout \in Timeouts, max_loops \in 1..MaxLoops,
          max_packet_errors \in Budgets, ready \in BOOLEAN :
          cb' = [NoCallback EXCEPT
                    !.pc = IF ready THEN "loop" ELSE "raise",
                    !.exc = IF ready THEN "" ELSE "SerialConnectionException",
                    !.timeout = timeout, !.max_loops = max_loops,
                    !.max_packet_errors = max_packet_errors]
    /\ UNCHANGED <<tests, app, ctl, helper, max_blocks, ser, ret, counter, call, clock, other,
                   fed, resets, scen>>

\* its loop calls read_data_single
CallbackReadDataSingle ==
    /\ cb.pc = "loop"
    /\ Becomes(Enter(Self, cb.timeout, 0, cb.max_packet_errors, TRUE))
    /\ clock' = 0
    /\ cb' = [cb EXCEPT !.pc = "single"]
    /\ UNCHANGED <<tests, app, ctl, max_blocks, other, fed, resets, scen>>

\* an iteration of the loop of read_data_single
CallbackReadDataSingleLoop ==
    /\ cb.pc = "single" /\ call.pc = "run"
    /\ ser # <<>>
    /\ clock' \in {t \in Later(clock) : t <= call.timeout}
    /\ Becomes(Loop(Self, max_blocks, "byte", "byte", clock'))
    /\ UNCHANGED <<tests, app, ctl, cb, max_blocks, other, fed, resets, scen>>

\* the rest of the iteration of its loop once read_data_single has
\* returned a packet or raised
CallbackPacket ==
    /\ cb.pc = "single" /\ call.pc \in {"return", "raise"}
    /\ Len(cb.calls) <= MaxLoops
    /\ IF call.pc = "return"
       THEN LET n == CounterAdd(cb.callback_packets)
            IN  cb' = [cb EXCEPT
                          !.callback_packets = n,
                          !.calls = Append(@, call.packet),
                          !.pc = IF is_max(n, cb.max_loops)
                                 THEN "return" ELSE "loop"]
       ELSE IF call.exc = "PacketReadException"
                /\ ~is_max_read_error(cb.max_packet_errors,
                                      cb.callback_packet_errors)
       THEN cb' = [cb EXCEPT !.callback_packet_errors = CounterAdd(@),
                             !.pc = "loop"]
       ELSE cb' = [cb EXCEPT !.pc = "raise", !.exc = call.exc]
    /\ helper' = IF call.pc = "return" \/ call.exc = "PacketReadException"
                 THEN reset_data_read(helper) ELSE helper
    /\ UNCHANGED <<tests, app, ctl, max_blocks, ser, ret, counter, call, clock, other, fed,
                   resets, scen>>

NextCallback ==
    \/ ReadDataCallback
    \/ CallbackReadDataSingle
    \/ CallbackReadDataSingleLoop
    \/ CallbackPacket

SpecCallback == InitCallback /\ [][NextCallback]_vars

-----------------------------------------------------------------------------
(* VedirectController: the search for the serial port of the device         *)
(* (SpecSearch).  A port of the machine cannot be opened ("closed"), gives  *)
(* data the identity test rejects ("other") or data it accepts ("device"):  *)
(* read_data_to_test and run_serial_tests are modelled by that outcome.     *)
(*                                                                          *)
(* self._com is called as the controller calls it: connect with the         *)
(* configuration given as keywords, is_serial_ready for _is_serial_ready;   *)
(* set_timeout and set_serial_port, which SerialConnection does not define, *)
(* are taken from the specification: they set the configured read timeout   *)
(* and the configured port.                                                 *)

\* serial ports of the machine
MaxPorts == 2

Ports == 1..MaxPorts

\* an argument of test_serial_port that is not the name of a serial port
NotAPort == MaxPorts + 1

\* what get_serial_ports_list can return
Enumerations ==
    {ports \in SeqsUpTo(Ports, MaxPorts) :
        \A i, j \in DOMAIN ports : ports[i] = ports[j] => i = j}

\* SerialConnection.is_serial_port
is_serial_port(port) == port \in Ports \/ port = NoPort

\* SerialConnectionHelper._is_serial_ready
is_serial_ready(c) == c.ser.is_open

\* self._com.set_timeout(timeout)
set_timeout(c, timeout) == [c EXCEPT !.conf.timeout = timeout]

\* self._com.set_serial_port(port)
set_serial_port(c, port) == [c EXCEPT !.conf.serial_port = port]

\* the result of a call: the controller after it, what it returned, what it
\* raised
Result(c, result, exc) == [ctl |-> c, result |-> result, exc |-> exc]

\* self._com.connect(serial_port=port, timeout=0): set_serial_conf writes
\* the port and the timeout into the configuration of the connection, then
\* Serial(...) opens the port or raises
connect(c, port, sc) ==
    LET c1 == [c EXCEPT !.conf = [serial_port |-> port, timeout |-> 0]]
    IN  IF port = NoPort
        THEN Result(c1, FALSE, "OpenSerialVeException")
        ELSE IF sc.status[port] = "closed"
        THEN Result(c1, FALSE, "SerialVeException")
        ELSE Result([c1 EXCEPT !.ser = [port |-> port, is_open |-> TRUE,
                                        timeout |-> 0],
                               !.handles = @ + 1,
                               !.peak = IF c.handles + 1 > @
                                        THEN c.handles + 1 ELSE @,
                               !.opened = TRUE], TRUE, "")

\* self._com.ser.close()
close(c) ==
    IF c.ser.is_open
    THEN [c EXCEPT !.ser.is_open = FALSE, !.handles = @ - 1]
    ELSE c

\* test_serial_port that takes any open handle for the one of the port
test_serial_port_any_open(c, port, sc) ==
    IF ~is_serial_port(port) THEN Result(c, FALSE, "")
    ELSE
    LET timeout == c.conf.timeout
        serial_port == c.conf.serial_port
        is_port_open == is_serial_ready(c)
        o == IF is_port_open THEN Result(c, TRUE, "")
             ELSE connect(close(c), port, sc)
        c2 == o.ctl
    IN  IF o.exc # "" THEN o
        ELSE IF sc.status[c2.ser.port] = "device"
        THEN Result(set_serial_port([c2 EXCEPT !.ser.timeout = timeout], port),
                    TRUE, "")
        ELSE Result(close(set_serial_port(set_timeout(c2, timeout),
                                          serial_port)), FALSE, "")

\* test_serial_port that leaves the candidate configured when it rejects it
test_serial_port_no_restore(c, port, sc) ==
    IF ~is_serial_port(port) THEN Result(c, FALSE, "")
    ELSE
    LET timeout == c.conf.timeout
        is_port_open == is_serial_ready(c) /\ port = c.ser.port
        o == IF is_port_open THEN Result(c, TRUE, "")
             ELSE connect(close(c), port, sc)
        c2 == o.ctl
    IN  IF o.exc # "" THEN o
        ELSE IF sc.status[c2.ser.port] = "device"
        THEN Result(set_serial_port([c2 EXCEPT !.ser.timeout = timeout], port),
                    TRUE, "")
        ELSE Result(close(c2), FALSE, "")

\* test_serial_port that opens the candidate over the handle it has
test_serial_port_no_close(c, port, sc) ==
    IF ~is_serial_port(port) THEN Result(c, FALSE, "")
    ELSE
    LET timeout == c.conf.timeout
        serial_port == c.conf.serial_port
        is_port_open == is_serial_ready(c) /\ port = c.ser.port
        o == IF is_port_open THEN Result(c, TRUE, "")
             ELSE connect(c, port, sc)
        c2 == o.ctl
    IN  IF o.exc # "" THEN o
        ELSE IF sc.status[c2.ser.port] = "device"
        THEN Result(set_serial_port([c2 EXCEPT !.ser.timeout = timeout], port),
                    TRUE, "")
        ELSE Result(close(set_serial_port(set_timeout(c2, timeout),
                                          serial_port)), FALSE, "")

\* VedirectController.test_serial_port(port), port a str
test_serial_port(c, port, sc) ==
    IF ~is_serial_port(port) THEN Result(c, FALSE, "")
    ELSE
    LET timeout == c.conf.timeout
        serial_port == c.conf.serial_port
        is_port_open == is_serial_ready(c) /\ port = c.ser.port
        o == IF is_port_open THEN Result(c, TRUE, "")
             ELSE connect(close(c), port, sc)
        c2 == o.ctl
    IN  IF o.exc # "" THEN o
        ELSE IF sc.status[c2.ser.port] = "device"
        THEN Result(set_serial_port([c2 EXCEPT !.ser.timeout = timeout], port),
                    TRUE, "")
        ELSE Result(close(set_serial_port(set_timeout(c2, timeout),
                                          serial_port)), FALSE, "")

\* VedirectController.is_ready_to_search_ports
is_ready_to_search_ports(sc) == sc.has_serial_test

\* VedirectController.test_serial_ports(ports)
RECURSIVE test_serial_ports(_, _, _)
test_serial_ports(c, ports, sc) ==
    IF ~is_ready_to_search_ports(sc)
    THEN Result(c, FALSE, "SerialConnectionException")
    ELSE IF ports = <<>> THEN Result(c, FALSE, "")
    ELSE LET o == test_serial_port(c, Head(ports), sc)
         IN  IF o.exc # "" \/ o.result THEN o
             ELSE test_serial_ports(o.ctl, Tail(ports), sc)

\* VedirectController.search_serial_port, the enumeration giving ports
search_serial_port(c, ports, sc) ==
    IF is_ready_to_search_ports(sc)
    THEN test_serial_ports([c EXCEPT !.ports = ports], ports, sc)
    ELSE Result(c, FALSE, "")

\* what the ports of the machine are, and whether the controller has
\* serial tests
SearchScenarios ==
    [status : [Ports -> {"closed", "other", "device"}],
     has_serial_test : BOOLEAN]

\* a controller whose connection is open on its configured port, or is not
\* open
InitSearch ==
    /\ NoReader
    /\ helper = NewHelper
    /\ max_blocks = NoneBlocks
    /\ tests = NoTester
    /\ app = NoApp
    /\ ser = <<>>
    /\ ret = NoRet
    /\ fed = NoFed
    /\ resets = 0
    /\ cb = NoCallback
    /\ scen \in SearchScenarios
    /\ \E port \in Ports, timeout \in 0..MaxTimeout, is_open \in BOOLEAN :
          /\ is_open => scen.status[port] # "closed"
          /\ ctl = [NoController EXCEPT
                       !.conf = [serial_port |-> port, timeout |-> timeout],
                       !.ser = [port |-> port, is_open |-> is_open,
                                timeout |-> timeout],
                       !.handles = IF is_open THEN 1 ELSE 0,
                       !.peak = IF is_open THEN 1 ELSE 0]

\* the call with its outcome in ctl.last
Called(op, port, o) ==
    [o.ctl EXCEPT !.last = [op |-> op, port |-> port, result |-> o.result,
                            exc |-> o.exc, before |-> ctl.conf,
                            ser_before |-> ctl.ser]]

\* the controller at the start of a call: no handle opened by the call yet
Begin(c) == [c EXCEPT !.opened = FALSE, !.peak = c.handles]

\* a call of test_serial_port(port)
TestSerialPort ==
    /\ ctl.pc = "idle"
    /\ scen.has_serial_test
    /\ \E port \in Ports \cup {NoPort, NotAPort} :
          ctl' = Called("test_serial_port", port,
                        test_serial_port(Begin(ctl), port, scen))
    /\ UNCHANGED <<tests, app, helper, max_blocks, ser, ret, counter, call, clock, other,
                   fed, resets, scen, cb>>

\* a call of search_serial_port(); the decoder is reset when it returns True
SearchSerialPort ==
    /\ ctl.pc = "idle"
    /\ \E ports \in Enumerations :
          LET o == search_serial_port(Begin(ctl), ports, scen)
          IN  /\ ctl' = Called("search_serial_port", NoPort, o)
              /\ helper' = IF o.exc = "" /\ o.result
                           THEN reset_data_read(helper) ELSE helper
    /\ UNCHANGED <<tests, app, max_blocks, ser, ret, counter, call, clock, other, fed,
                   resets, scen, cb>>

\* a call of wait_or_search_serial_connection(timeout=...) up to its loop
WaitOrSearchSerialConnection ==
    /\ ctl.pc = "idle"
    /\ \E timeout \in Timeouts :
          ctl' = IF is_ready_to_search_ports(scen)
                 THEN [ctl EXCEPT !.pc = "search", !.timeout = timeout,
                                  !.last = NoLast]
                 ELSE [ctl EXCEPT !.pc = "raise", !.last = NoLast,
                                  !.exc = "SerialConnectionException"]
    /\ clock' = 0
    /\ UNCHANGED <<tests, app, helper, max_blocks, ser, ret, counter, call, other, fed,
                   resets, scen, cb>>

\* an iteration of its loop at time clock; the loop then sleeps
WaitOrSearchSerialConnectionLoop ==
    /\ ctl.pc = "search"
    /\ \E ports \in Enumerations :
          LET o == search_serial_port(Begin(ctl), ports, scen)
          IN  /\ ctl' = IF o.exc # ""
                        THEN [o.ctl EXCEPT !.pc = "raise", !.exc = o.exc]
                        ELSE IF o.result
                        THEN [o.ctl EXCEPT !.pc = "return"]
                        ELSE IF clock > ctl.timeout
                        THEN [o.ctl EXCEPT !.pc = "raise",
                                           !.exc = "ReadTimeoutException"]
                        ELSE o.ctl
              /\ helper' = IF o.exc = "" /\ o.result
                           THEN reset_data_read(helper) ELSE helper
    /\ clock' \in {t \in Later(clock) : t > clock \/ t = MaxClock}
    /\ UNCHANGED <<tests, app, max_blocks, ser, ret, counter, call, other, fed, resets,
                   scen, cb>>

NextSearch ==
    \/ TestSerialPort
    \/ SearchSerialPort
    \/ WaitOrSearchSerialConnection
    \/ WaitOrSearchSerialConnectionLoop

SpecSearch == InitSearch /\ [][NextSearch]_vars

-----------------------------------------------------------------------------
(* VePacketsApp: the snapshot cache (SpecApp).  Time is counted in half     *)
(* seconds, so that time.time() has a fraction that Ut.get_int drops; a     *)
(* round of reads (get_all_packets) is modelled by its outcome: a snapshot, *)
(* nothing, or InputReadException once read errors have reached the         *)
(* maximum.                                                                 *)

\* the largest time.time(), in half seconds
MaxNow == 8

\* min_interval = ..., in seconds
MaxInterval == 2

\* half seconds in a second
Second == 2

\* the first time.time(): one second
FirstNow == Second

Times == FirstNow..MaxNow

\* Ut.get_int of a time
get_int(t) == t \div Second

\* abs
abs(x) == IF x < 0 THEN -x ELSE x

\* VePacketsApp.has_data_cache
has_data_cache(a) == a.data_cache # NoCache

\* VePacketsApp.get_time_cache, None as -1 (Ut.get_int(None, default=-1))
get_time_cache(a) ==
    IF has_data_cache(a) THEN get_int(a.data_cache.time) ELSE -1

\* is_time_to_read_serial that reads when the difference is above the interval
is_time_to_read_serial_above(a, now) ==
    LET time_cache == get_time_cache(a)
        inow == get_int(now)
    IN  IF time_cache > 0 /\ inow > 0 /\ a.min_interval > 0
        THEN abs(time_cache - inow) > a.min_interval
        ELSE TRUE

\* VePacketsApp.is_time_to_read_serial(now)
is_time_to_read_serial(a, now) ==
    LET time_cache == get_time_cache(a)
        inow == get_int(now)
    IN  IF time_cache > 0 /\ inow > 0 /\ a.min_interval > 0
        THEN abs(time_cache - inow) >= a.min_interval
        ELSE TRUE

\* the snapshots a round of reads can give
Snapshots == {AsDict(StreamPackets[1]), AsDict(NextPacket)}

InitApp ==
    /\ NoReader
    /\ helper = NewHelper
    /\ max_blocks = NoneBlocks
    /\ tests = NoTester
    /\ ser = <<>>
    /\ ret = NoRet
    /\ fed = NoFed
    /\ resets = 0
    /\ cb = NoCallback
    /\ ctl = NoController
    /\ scen = <<>>
    /\ \E min_interval \in 1..MaxInterval :
          app = [NoApp EXCEPT !.min_interval = min_interval, !.now = FirstNow]

\* time passes
TimePasses ==
    /\ app.now < MaxNow
    /\ app' = [app EXCEPT !.now = @ + 1]
    /\ UNCHANGED <<tests, helper, max_blocks, ser, ret, counter, call, clock, other,
                   fed, resets, scen, cb, ctl>>

\* a call of is_time_to_read_serial(now)
IsTimeToReadSerial ==
    /\ \E now \in Times :
          app' = [app EXCEPT !.last =
                    [NoAppCall EXCEPT
                        !.op = "is_time_to_read_serial", !.now = now,
                        !.result = is_time_to_read_serial(app, now),
                        !.before = app.data_cache]]
    /\ UNCHANGED <<tests, helper, max_blocks, ser, ret, counter, call, clock, other,
                   fed, resets, scen, cb, ctl>>

\* a call of read_data(caller_name, timeout): the snapshot of the cache, or
\* read_serial_packets, which resets the decoder and the cache and makes a
\* round of reads; the round stamps its snapshot with the time of its first
\* packet and ends at time t
ReadData ==
    /\ LET now == app.now
           called == [NoAppCall EXCEPT !.op = "read_data", !.now = now,
                                       !.before = app.data_cache]
       IN  IF is_time_to_read_serial(app, now)
           THEN /\ \E round \in {"data", "none", "raise"}, data \in Snapshots :
                   \E stamp \in {t \in Times : now <= t /\ t <= now + 1} :
                   \E t \in {t \in Times : stamp <= t /\ t <= stamp + 1} :
                      app' = [app EXCEPT
                                !.now = t,
                                !.data_cache =
                                    IF round = "data"
                                    THEN [time |-> stamp, data |-> data]
                                    ELSE NoCache,
                                !.last =
                                    [called EXCEPT
                                        !.result = (round = "data"),
                                        !.data = IF round = "data" THEN data
                                                 ELSE EmptyDict,
                                        !.exc = IF round = "raise"
                                                THEN "InputReadException"
                                                ELSE ""]]
                /\ helper' = reset_data_read(helper)
           ELSE /\ app' = [app EXCEPT
                             !.last = [called EXCEPT
                                           !.result = TRUE,
                                           !.data = app.data_cache.data,
                                           !.is_cache = TRUE]]
                /\ UNCHANGED helper
    /\ UNCHANGED <<tests, max_blocks, ser, ret, counter, call, clock, other, fed,
                   resets, scen, cb, ctl>>

NextApp == TimePasses \/ IsTimeToReadSerial \/ ReadData

SpecApp == InitApp /\ [][NextApp]_vars

-----------------------------------------------------------------------------
(* VePacketsApp: a round of reads, slot by slot (SpecRound).  read_data is  *)
(* cut at its calls of read_serial_data, whose outcome is drawn: a packet,  *)
(* None (the port was lost and found again, or the reader gave an empty     *)
(* dict), a VeReadException of the reader, or the VedirectException of      *)
(* try_to_reconnect.  PacketStats is the class VePacketsApp constructs and  *)
(* calls (nb_packets, accepted_keys, max_read_error; get_serial_read_errors,*)
(* add_serial_read_errors, has_reached_max_errors): packet_stats.py holds   *)
(* an earlier PacketStats without the error totals, which are modelled as   *)
(* the callers use them.                                                    *)

\* nb_packets = ...
MaxPackets == 3

\* max_read_error = ...
MaxReadError == 2

\* fresh rounds of a run
MaxRounds == 1

\* PacketsConf.MAX_STAT_PACKETS
MAX_STAT_PACKETS == 10

\* the packets of the device: {'A': '1'} and {'A': '12', 'P': '8'}
RoundPackets ==
    { AsDict(StreamPackets[1]),
      AsDict(<< <<(<<65>>), (<<49, 50>>)>>, <<(<<80>>), (<<56>>)>> >>) }

\* Ut.is_dict(data, not_null=True); None and {} are both EmptyDict
is_dict_not_null(data) == data # EmptyDict

\* dict.update
update(d, data) ==
    [k \in (DOMAIN d) \cup (DOMAIN data) |->
        IF k \in DOMAIN data THEN data[k] ELSE d[k]]

\* the result of a cache operation on a
CacheResult(a, result) == [app |-> a, result |-> result]

\* VePacketsApp.set_data_cache
set_data_cache(a, data) ==
    IF is_dict_not_null(data)
    THEN CacheResult([a EXCEPT !.data_cache = [time |-> a.now, data |-> data]],
                     TRUE)
    ELSE CacheResult([a EXCEPT !.data_cache = NoCache], FALSE)

\* update_data_cache that stamps the cache again
update_data_cache_stamps(a, data) ==
    IF has_data_cache(a)
    THEN IF is_dict_not_null(data)
         THEN CacheResult([a EXCEPT !.data_cache =
                             [time |-> a.now,
                              data |-> update(a.data_cache.data, data)]], TRUE)
         ELSE CacheResult(a, FALSE)
    ELSE set_data_cache(a, data)

\* update_data_cache that replaces the cached map
update_data_cache_replaces(a, data) ==
    IF has_data_cache(a)
    THEN IF is_dict_not_null(data)
         THEN CacheResult([a EXCEPT !.data_cache.data = data], TRUE)
         ELSE CacheResult(a, FALSE)
    ELSE set_data_cache(a, data)

\* VePacketsApp.update_data_cache
update_data_cache(a, data) ==
    IF has_data_cache(a)
    THEN IF is_dict_not_null(data)
         THEN CacheResult([a EXCEPT !.data_cache.data = update(@, data)], TRUE)
         ELSE CacheResult(a, FALSE)
    ELSE set_data_cache(a, data)

\* PacketStats.get_stats_from_packet: the keys of the packet
get_stats_from_packet(packet) == DOMAIN packet

\* last_index, step, nb_linear, nb_resets of a slot that has none: dict.get
\* gives None
NoIndex == -1

\* the dict appended by add_stats: {'nb': ..., 'keys': ...}
NewSlot(packet) ==
    [keys |-> get_stats_from_packet(packet), last_index |-> NoIndex,
     step |-> NoIndex, is_linear |-> FALSE, nb_linear |-> NoIndex,
     nb_resets |-> NoIndex]

\* the outcome of an operation on the slots
StatsResult(stats, result, exc) ==
    [stats |-> stats, result |-> result, exc |-> exc]

\* can_add_stats that lets MAX_STAT_PACKETS slots in
can_add_stats_up_to_max(stats) == Len(stats) < MAX_STAT_PACKETS

\* PacketStats.can_add_stats
can_add_stats(stats) == Len(stats) + 1 < MAX_STAT_PACKETS

\* PacketStats.get_packet_index: the last slot of the packet's fingerprint,
\* counted from 0, or -1
get_packet_index(stats, packet) ==
    LET same == {j \in DOMAIN stats :
                    stats[j].keys = get_stats_from_packet(packet)}
    IN  IF same = {} THEN -1
        ELSE (CHOOSE j \in same : \A k \in same : k <= j) - 1

\* PacketStats.is_index_linear
is_index_linear(index, last_index) ==
    (IF last_index = NoIndex THEN index ELSE last_index) = index

\* PacketStats.count_linear_index: <<nb_linear, nb_resets>>
count_linear_index(is_linear, slot) ==
    LET nb_linear == IF slot.nb_linear = NoIndex THEN 0 ELSE slot.nb_linear
        nb_resets == IF slot.nb_resets = NoIndex THEN 0 ELSE slot.nb_resets
    IN  IF is_linear THEN <<nb_linear + 1, nb_resets>>
        ELSE <<0, nb_resets + 1>>

\* PacketStats.set_packet_stats_from_index on the slot at index
set_packet_stats_from_index(stats, index, packet) ==
    LET slot == stats[index + 1]
        item_stats == get_stats_from_packet(packet)
        is_linear == /\ item_stats = slot.keys
                     /\ is_index_linear(index, slot.last_index)
        counts == count_linear_index(is_linear, slot)
    IN  StatsResult(
            [stats EXCEPT ![index + 1] =
                [slot EXCEPT
                    !.keys = IF is_linear THEN @ ELSE item_stats,
                    !.last_index = index,
                    !.is_linear = is_linear,
                    !.nb_linear = counts[1],
                    !.nb_resets = counts[2]]],
            TRUE, "")

\* PacketStats.set_packet_stats_from_stats on the slot at, counted from 0:
\* index - None is a TypeError
set_packet_stats_from_stats(stats, index, at) ==
    LET slot == stats[at + 1]
        counts == count_linear_index(TRUE, slot)
    IN  IF slot.last_index = NoIndex
        THEN StatsResult(stats, FALSE, "TypeError")
        ELSE StatsResult(
                [stats EXCEPT ![at + 1] =
                    [slot EXCEPT
                        !.last_index = index,
                        !.step = index - slot.last_index,
                        !.is_linear = TRUE,
                        !.nb_linear = counts[1],
                        !.nb_resets = counts[2]]],
                TRUE, "")

\* PacketStats.set_packet_stats; result FALSE is None
set_packet_stats(stats, index, packet) ==
    LET at == get_packet_index(stats, packet)
    IN  IF ~(index < Len(stats)) /\ at >= 0
        THEN set_packet_stats_from_stats(stats, index, at)
        ELSE IF index < Len(stats)
        THEN set_packet_stats_from_index(stats, index, packet)
        ELSE StatsResult(stats, FALSE, "")

\* PacketStats.add_stats
add_stats(stats, packet) ==
    IF is_dict_not_null(packet) /\ can_add_stats(stats)
    THEN StatsResult(Append(stats, NewSlot(packet)), TRUE, "")
    ELSE StatsResult(stats, FALSE, "")

\* PacketStats.set_loop_packet_stats
set_loop_packet_stats(stats, index, packet) ==
    LET first == set_packet_stats(stats, index, packet)
        added == add_stats(stats, packet)
    IN  IF first.exc # "" \/ first.result THEN first
        ELSE IF added.result
        THEN set_packet_stats(added.stats, index, packet)
        ELSE StatsResult(stats, FALSE, "")

\* a packet with a key outside accepted_keys
is_bad_packet(ps, packet) ==
    ps.accepted_keys # NoKeys /\ ~(DOMAIN packet \subseteq ps.accepted_keys)

\* PacketStats.add_serial_read_errors
add_serial_read_errors(ps) == [ps EXCEPT !.serial_read_errors = @ + 1]

\* PacketsConf.set_nb_packets
set_nb_packets(ps, value) ==
    [ps EXCEPT !.nb_packets =
        IF MAX_STAT_PACKETS > value /\ value > 0 THEN value ELSE 0]

\* init_nb_packets that leaves nb_packets as it was configured
init_nb_packets_keeps(ps) ==
    IF ps.stats # <<>> THEN [ps EXCEPT !.initialised = TRUE] ELSE ps

\* init_nb_packets that makes room for one more packet
init_nb_packets_one_more(ps) ==
    IF ps.stats # <<>>
    THEN [set_nb_packets(ps, Len(ps.stats) + 1) EXCEPT !.initialised = TRUE]
    ELSE ps

\* PacketStats.init_nb_packets
init_nb_packets(ps) ==
    IF ps.stats # <<>>
    THEN [set_nb_packets(ps, Len(ps.stats)) EXCEPT !.initialised = TRUE]
    ELSE ps

\* PacketStats.has_reached_max_errors
has_reached_max_errors(ps) ==
    /\ ps.max_read_error > 0
    /\ \/ ps.serial_read_errors >= ps.max_read_error
       \/ ps.nb_bad_packets >= ps.max_read_error

\* the outcomes of read_serial_data
SlotOutcomes ==
    [kind : {"packet"}, packet : RoundPackets]
    \cup [kind : {"None", "PacketReadException", "VedirectException"},
          packet : {EmptyDict}]

VeReadExceptions ==
    {"InputReadException", "PacketReadException", "ReadTimeoutException"}

InitRound ==
    /\ NoReader
    /\ helper = NewHelper
    /\ max_blocks = NoneBlocks
    /\ tests = NoTester
    /\ ser = <<>>
    /\ ret = NoRet
    /\ fed = NoFed
    /\ resets = 0
    /\ cb = NoCallback
    /\ ctl = NoController
    /\ scen = <<>>
    /\ \E nb_packets \in 1..MaxPackets, max_read_error \in 0..MaxReadError,
          accepted_keys \in {NoKeys, {<<65>>}} :
          app = [NoApp EXCEPT
                    !.min_interval = 1, !.now = FirstNow,
                    !.packets_stats =
                        [NoStats EXCEPT
                            !.nb_packets = nb_packets,
                            !.configured = nb_packets,
                            !.accepted_keys = accepted_keys,
                            !.max_read_error = max_read_error]]

\* time passes until the time until, also while a round is under way
TimePassesUntil(until) ==
    /\ app.now < until
    /\ app' = [app EXCEPT !.now = @ + 1]
    /\ UNCHANGED <<tests, helper, max_blocks, ser, ret, counter, call, clock, other,
                   fed, resets, scen, cb, ctl>>

\* a call of set_data_cache(data)
SetDataCache ==
    /\ \E data \in RoundPackets \cup {EmptyDict} :
          LET o == set_data_cache(app, data)
          IN  app' = [o.app EXCEPT !.last =
                        [NoAppCall EXCEPT
                            !.op = "set_data_cache", !.now = app.now,
                            !.data = data, !.result = o.result,
                            !.before = app.data_cache]]
    /\ UNCHANGED <<tests, helper, max_blocks, ser, ret, counter, call, clock, other,
                   fed, resets, scen, cb, ctl>>

\* a call of update_data_cache(data)
UpdateDataCache ==
    /\ \E data \in RoundPackets \cup {EmptyDict} :
          LET o == update_data_cache(app, data)
          IN  app' = [o.app EXCEPT !.last =
                        [NoAppCall EXCEPT
                            !.op = "update_data_cache", !.now = app.now,
                            !.data = data, !.result = o.result,
                            !.before = app.data_cache]]
    /\ UNCHANGED <<tests, helper, max_blocks, ser, ret, counter, call, clock, other,
                   fed, resets, scen, cb, ctl>>

\* read_data(caller_name, timeout) up to its first read: the snapshot of the
\* cache, or read_serial_packets and get_all_packets up to the loop
ReadDataWithin(rounds) ==
    /\ app.rd.pc # "loop"
    /\ LET now == app.now
           called == [NoAppCall EXCEPT !.op = "read_data", !.now = now,
                                       !.before = app.data_cache]
       IN  IF is_time_to_read_serial(app, now)
           THEN /\ app.rd.rounds < rounds
                /\ app' = [app EXCEPT
                             !.data_cache = NoCache,
                             !.last = called,
                             !.rd = [NoRound EXCEPT
                                       !.pc = "loop",
                                       !.nb_packets =
                                           app.packets_stats.nb_packets,
                                       !.now = now,
                                       !.before = app.data_cache,
                                       !.rounds = app.rd.rounds + 1,
                                       !.errors_before =
                                           app.packets_stats.serial_read_errors]]
                /\ helper' = reset_data_read(helper)
           ELSE /\ app' = [app EXCEPT
                             !.last = [called EXCEPT
                                           !.result = TRUE,
                                           !.data = app.data_cache.data,
                                           !.is_cache = TRUE]]
                /\ UNCHANGED helper
    /\ UNCHANGED <<tests, max_blocks, ser, ret, counter, call, clock, other, fed,
                   resets, scen, cb, ctl>>

\* the body of the loop of get_all_packets for slot a.rd.i, the outcome of
\* read_serial_data being o
get_all_packets_slot(a, o) ==
    IF o.kind = "VedirectException"
    THEN [a EXCEPT !.rd.pc = "abort", !.rd.reads = @ + 1,
                   !.last.exc = "VedirectException"]
    ELSE IF o.kind \in VeReadExceptions
    THEN [a EXCEPT !.packets_stats = add_serial_read_errors(@),
                   !.rd.raised = @ + 1,
                   !.rd.raised_after = Len(a.rd.packets),
                   !.rd.reads = @ + 1,
                   !.rd.i = @ + 1]
    ELSE LET u == update_data_cache(a, o.packet)
             st == set_loop_packet_stats(a.packets_stats.stats, a.rd.i,
                                         o.packet)
         IN  IF u.result /\ st.exc # ""
             THEN [u.app EXCEPT
                      !.packets_stats.stats = st.stats,
                      !.rd.packets = Append(@, o.packet),
                      !.rd.merged_at = a.now,
                      !.rd.reads = @ + 1,
                      !.rd.pc = "abort",
                      !.last.exc = st.exc]
             ELSE IF u.result
             THEN [u.app EXCEPT
                      !.packets_stats.stats = st.stats,
                      !.packets_stats.nb_bad_packets =
                          IF is_bad_packet(a.packets_stats, o.packet)
                          THEN @ + 1 ELSE @,
                      !.rd.packets = Append(@, o.packet),
                      !.rd.merged_at = a.now,
                      !.rd.reads = @ + 1,
                      !.rd.i = @ + 1]
             ELSE [a EXCEPT !.packets_stats = add_serial_read_errors(@),
                            !.rd.reads = @ + 1,
                            !.rd.i = @ + 1]

\* one turn of the loop of get_all_packets
GetAllPacketsSlot ==
    /\ app.rd.pc = "loop"
    /\ app.rd.i < app.rd.nb_packets
    /\ \E o \in SlotOutcomes : app' = get_all_packets_slot(app, o)
    /\ UNCHANGED <<tests, helper, max_blocks, ser, ret, counter, call, clock, other,
                   fed, resets, scen, cb, ctl>>

\* the end of read_serial_packets that does not ask for the error totals
read_serial_packets_end_unchecked(a) ==
    LET got == has_data_cache(a)
        ps == IF got THEN init_nb_packets(a.packets_stats)
              ELSE add_serial_read_errors(a.packets_stats)
    IN  [a EXCEPT
            !.packets_stats = ps,
            !.rd.pc = "return",
            !.rd.stored = IF got THEN a.data_cache.data ELSE EmptyDict,
            !.last.result = got,
            !.last.data = IF got THEN a.data_cache.data ELSE EmptyDict]

\* get_all_packets after its loop, the rest of read_serial_packets and the
\* return of read_data
read_serial_packets_end(a) ==
    LET got == has_data_cache(a)
        ps == IF got THEN init_nb_packets(a.packets_stats)
              ELSE add_serial_read_errors(a.packets_stats)
    IN  IF has_reached_max_errors(ps)
        THEN [a EXCEPT !.packets_stats = ps,
                       !.rd.pc = "raise",
                       !.rd.stored =
                           IF got THEN a.data_cache.data ELSE EmptyDict,
                       !.last.exc = "InputReadException"]
        ELSE [a EXCEPT
                !.packets_stats = ps,
                !.rd.pc = "return",
                !.rd.stored = IF got THEN a.data_cache.data ELSE EmptyDict,
                !.last.result = got,
                !.last.data = IF got THEN a.data_cache.data ELSE EmptyDict]

\* the loop of get_all_packets is over
ReadSerialPacketsEnd ==
    /\ app.rd.pc = "loop"
    /\ app.rd.i = app.rd.nb_packets
    /\ app' = read_serial_packets_end(app)
    /\ UNCHANGED <<tests, helper, max_blocks, ser, ret, counter, call, clock, other,
                   fed, resets, scen, cb, ctl>>

RoundTimePasses == TimePassesUntil(FirstNow + MaxRounds)

RoundReadData == ReadDataWithin(MaxRounds)

NextRound ==
    \/ RoundTimePasses
    \/ RoundReadData
    \/ GetAllPacketsSlot
    \/ ReadSerialPacketsEnd

SpecRound == InitRound /\ [][NextRound]_vars

\* fresh rounds of a run of several rounds
MaxLaterRounds == 2

\* a VePacketsApp without limit of errors nor accepted keys
InitRounds ==
    /\ InitRound
    /\ app.packets_stats.max_read_error = 0
    /\ app.packets_stats.accepted_keys = NoKeys

RoundsTimePasses == TimePassesUntil(FirstNow + MaxLaterRounds)

RoundsReadData == ReadDataWithin(MaxLaterRounds)

NextRounds ==
    \/ RoundsTimePasses
    \/ RoundsReadData
    \/ GetAllPacketsSlot
    \/ ReadSerialPacketsEnd

SpecRounds == InitRounds /\ [][NextRounds]_vars

\* the operations of the cache, called one by one
NextCache == TimePasses \/ SetDataCache \/ UpdateDataCache

SpecCache == InitApp /\ [][NextCache]_vars

-----------------------------------------------------------------------------
(* SerialTestHelper (SpecTests).  A serialTest configuration is a sequence  *)
(* of (name, sub-test) pairs in the order of the dict; a sub-test is a      *)
(* record of the entries the code reads, an entry that is missing being     *)
(* "None" (typeTest), None (key, value) or the empty list (keys).  The      *)
(* inputs of a run, a configuration and a packet, are drawn at the start.   *)

\* sub-tests of a configuration
MaxTests == 2

\* the longest key of the patterns
MaxKeyLen == 30

\* '_'
Underscore == 95

\* '#'
Hash == 35

\* [a-zA-Z\d]
Alnum == (48..57) \cup (65..90) \cup (97..122)

\* groups of the characters ok, one '_' between two groups, 1 to 30 long
MatchesPattern(data, ok) ==
    /\ data # None
    /\ Len(data) >= 1 /\ Len(data) <= MaxKeyLen
    /\ \A i \in DOMAIN data : data[i] \in ok \/ data[i] = Underscore
    /\ data[1] # Underscore /\ data[Len(data)] # Underscore
    /\ \A i \in 1..(Len(data) - 1) :
          ~(data[i] = Underscore /\ data[i + 1] = Underscore)

\* SerialUtils.is_key_pattern
is_key_pattern(data) == MatchesPattern(data, Alnum)

\* SerialUtils.is_serial_key_pattern
is_serial_key_pattern(data) == MatchesPattern(data, Alnum \cup {Hash})

\* a sub-test: a dict with the entries typeTest, key, value, keys
Item(typeTest, key, value, keys) ==
    [not_null |-> TRUE, typeTest |-> typeTest, key |-> key, value |-> value,
     keys |-> keys]

\* a sub-test that is {} or no dict
EmptyItem ==
    [not_null |-> FALSE, typeTest |-> "None", key |-> None, value |-> None,
     keys |-> <<>>]

\* the sub-tests of the configurations: value tests on 'A' and 'P', one
\* without a value and one on the key '_', columns tests on ['A'], on
\* ['A', 'P'] and without keys, a test of the type 'badType' and {}
Items ==
    { Item("value", <<65>>, <<49>>, <<>>),
      Item("value", <<80>>, <<56>>, <<>>),
      Item("value", <<65>>, None, <<>>),
      Item("value", <<Underscore>>, <<49>>, <<>>),
      Item("columns", None, None, << <<65>> >>),
      Item("columns", None, None, << <<65>>, <<80>> >>),
      Item("columns", None, None, <<>>),
      Item("badType", None, None, << <<65>> >>),
      EmptyItem }

\* the names of the sub-tests: 'T1', 'T2' and 'T@'
TestNames == { <<84, 49>>, <<84, 50>>, <<84, 64>> }

\* the configurations
SerialTests ==
    {d \in SeqsUpTo(TestNames \X Items, MaxTests) : DistinctKeys(d)}

\* the packets the tests are run on, None and {} being EmptyDict
TestPackets ==
    RoundPackets
    \cup { AsDict(<< <<(<<65>>), (<<49>>)>>, <<(<<80>>), (<<56>>)>> >>),
           EmptyDict }

\* SerialTestHelper.has_serial_tests
has_serial_tests(t) == t.tests # NoTests

\* SerialTestHelper.is_value_test
is_value_test(data) ==
    /\ data.not_null
    /\ data.typeTest = "value"
    /\ is_serial_key_pattern(data.key)
    /\ data.value # None

\* run_value_test that looks for the key only
run_value_test_any_value(value_test, serial_data) ==
    /\ is_value_test(value_test)
    /\ is_dict_not_null(serial_data)
    /\ value_test.key \in DOMAIN serial_data

\* SerialTestHelper.run_value_test
run_value_test(value_test, serial_data) ==
    IF /\ is_value_test(value_test)
       /\ is_dict_not_null(serial_data)
       /\ value_test.key \in DOMAIN serial_data
    THEN serial_data[value_test.key] = value_test.value
    ELSE FALSE

\* SerialTestHelper.is_columns_list_test
is_columns_list_test(data) ==
    /\ data.not_null
    /\ data.typeTest = "columns"
    /\ data.keys # <<>>

\* SerialTestHelper.run_columns_test
run_columns_test(columns_test, serial_data) ==
    IF is_columns_list_test(columns_test) /\ is_dict_not_null(serial_data)
    THEN \A i \in DOMAIN columns_test.keys :
            columns_test.keys[i] \in DOMAIN serial_data
    ELSE FALSE

\* SerialTestHelper.get_valid_type_tests
get_valid_type_tests == {"value", "columns"}

\* what a method of the helper returned or raised
TestResult(result, exc) == [result |-> result, exc |-> exc]

\* the loop of validate_serial_tests from its i-th turn on
RECURSIVE validate_items(_, _, _)
validate_items(data, i, tst) ==
    IF i > Len(data) THEN TestResult(tst, "")
    ELSE LET key == data[i][1]
             item == data[i][2]
         IN  IF is_key_pattern(key) /\ item.not_null
             THEN IF item.typeTest = "value" /\ ~is_value_test(item)
                  THEN validate_items(data, i + 1, FALSE)
                  ELSE IF item.typeTest = "columns"
                          /\ ~is_columns_list_test(item)
                  THEN validate_items(data, i + 1, FALSE)
                  ELSE IF item.typeTest \notin get_valid_type_tests
                  THEN TestResult(FALSE, "SettingInvalidException")
                  ELSE validate_items(data, i + 1, tst)
             ELSE TestResult(FALSE, "SettingInvalidException")

\* SerialTestHelper.validate_serial_tests
validate_serial_tests(data) ==
    IF data # NoTests THEN validate_items(data, 1, TRUE)
    ELSE TestResult(FALSE, "")

\* set_serial_tests that stores the configuration before it validates it
set_serial_tests_stores_first(t, data) ==
    [t EXCEPT !.tests = data]

\* SerialTestHelper.set_serial_tests: the helper after the call
set_serial_tests(t, data) ==
    IF validate_serial_tests(data).result THEN [t EXCEPT !.tests = data]
    ELSE t

\* the loop of run_serial_tests from its i-th turn on
RECURSIVE run_items(_, _, _, _)
run_items(items, serial_data, i, tst) ==
    IF i > Len(items) THEN tst
    ELSE LET item == items[i][2]
         IN  IF item.typeTest = "value" /\ ~run_value_test(item, serial_data)
             THEN run_items(items, serial_data, i + 1, FALSE)
             ELSE IF item.typeTest = "columns"
                     /\ ~run_columns_test(item, serial_data)
             THEN run_items(items, serial_data, i + 1, FALSE)
             ELSE run_items(items, serial_data, i + 1, tst)

\* SerialTestHelper.run_serial_tests
run_serial_tests(t, serial_data) ==
    IF has_serial_tests(t) THEN run_items(t.tests, serial_data, 1, TRUE)
    ELSE FALSE

\* the configuration of a helper constructed with a columns test
DefaultTests == << <<(<<84, 49>>), Item("columns", None, None, << <<65>> >>)>> >>

InitTests ==
    /\ NoReader
    /\ helper = NewHelper
    /\ max_blocks = NoneBlocks
    /\ ser = <<>>
    /\ ret = NoRet
    /\ fed = NoFed
    /\ resets = 0
    /\ cb = NoCallback
    /\ ctl = NoController
    /\ app = NoApp
    /\ scen = <<>>
    /\ \E t \in {NoTests, DefaultTests}, data \in SerialTests,
          serial_data \in TestPackets :
          tests = [NoTester EXCEPT !.tests = t, !.data = data,
                                   !.serial_data = serial_data]

\* a call of SerialTestHelper.validate_serial_tests(data)
ValidateSerialTests ==
    /\ LET o == validate_serial_tests(tests.data)
       IN  tests' = [tests EXCEPT !.last =
                        [op |-> "validate_serial_tests", result |-> o.result,
                         exc |-> o.exc, before |-> tests.tests]]
    /\ UNCHANGED <<app, ctl, cb, helper, max_blocks, ser, ret, counter, call,
                   clock, other, fed, resets, scen>>

\* a call of set_serial_tests(data)
SetSerialTests ==
    /\ LET o == validate_serial_tests(tests.data)
           t == set_serial_tests(tests, tests.data)
       IN  tests' = [t EXCEPT !.last =
                        [op |-> "set_serial_tests", result |-> o.result,
                         exc |-> o.exc, before |-> tests.tests]]
    /\ UNCHANGED <<app, ctl, cb, helper, max_blocks, ser, ret, counter, call,
                   clock, other, fed, resets, scen>>

\* a call of run_serial_tests(serial_data)
RunSerialTests ==
    /\ tests' = [tests EXCEPT !.last =
                    [op |-> "run_serial_tests",
                     result |-> run_serial_tests(tests, tests.serial_data),
                     exc |-> "", before |-> tests.tests]]
    /\ UNCHANGED <<app, ctl, cb, helper, max_blocks, ser, ret, counter, call,
                   clock, other, fed, resets, scen>>

NextTests == ValidateSerialTests \/ SetSerialTests \/ RunSerialTests

SpecTests == InitTests /\ [][NextTests]_vars

-----------------------------------------------------------------------------
(* The counters of the reader (SpecCounters): VeCounters holds five         *)
(* CounterHelper of vedirect_m8.core.helpers; add() and reset() are called  *)
(* on them in any order.                                                    *)

\* the counters of VeCounters
CounterNames ==
    {"byte", "packet", "packet_errors", "block_errors", "timeout_errors"}

\* CounterHelper.reset
CounterReset(c) == 0

InitCounters ==
    /\ NoReader
    /\ helper = NewHelper
    /\ max_blocks = NoneBlocks
    /\ tests = NoTester
    /\ app = NoApp
    /\ ctl = NoController
    /\ cb = NoCallback
    /\ ser = <<>>
    /\ ret = NoRet
    /\ fed = NoFed
    /\ resets = 0
    /\ scen = <<>>

\* a call of add() on the counter name
CounterHelperAdd(name) ==
    /\ counter' = [counter EXCEPT ![name] = CounterAdd(@)]
    /\ UNCHANGED <<tests, app, ctl, cb, helper, max_blocks, ser, ret, call,
                   clock, other, fed, resets, scen>>

\* a call of reset() on the counter name
CounterHelperReset(name) ==
    /\ counter' = [counter EXCEPT ![name] = CounterReset(@)]
    /\ UNCHANGED <<tests, app, ctl, cb, helper, max_blocks, ser, ret, call,
                   clock, other, fed, resets, scen>>

NextCounters ==
    \/ \E name \in CounterNames : CounterHelperAdd(name)
    \/ \E name \in CounterNames : CounterHelperReset(name)

SpecCounters == InitCounters /\ [][NextCounters]_vars

-----------------------------------------------------------------------------
(* VedirectController.read_data_to_test (SpecProbe): _get_test_data is cut  *)
(* at its calls of read_data_single(timeout=2), whose outcome is drawn: a   *)
(* packet, None or an empty dict, or one of the exceptions the reader       *)
(* raises with its default budgets of 0 (InputReadException for a byte the  *)
(* decoder rejects, PacketReadException for a bad checksum,                 *)
(* ReadTimeoutException).                                                   *)

\* range(4)
Probes == 4

\* the outcomes of read_data_single(timeout=2)
ProbeOutcomes ==
    [kind : {"packet"}, packet : RoundPackets]
    \cup [kind : {"None", "InputReadException", "PacketReadException",
                  "ReadTimeoutException"},
          packet : {EmptyDict}]

InitProbe ==
    /\ NoReader
    /\ helper = NewHelper
    /\ max_blocks = NoneBlocks
    /\ tests = NoTester
    /\ app = NoApp
    /\ cb = NoCallback
    /\ ser = <<>>
    /\ ret = NoRet
    /\ fed = NoFed
    /\ resets = 0
    /\ scen = <<>>
    /\ ctl = NoController

\* a call of read_data_to_test() up to the loop of _get_test_data
ReadDataToTest ==
    /\ ctl.probe.pc = "idle"
    /\ \E ready \in BOOLEAN :
          ctl' = [ctl EXCEPT !.probe =
                    IF ready
                    THEN [NoProbe EXCEPT !.pc = "loop", !.is_none = FALSE]
                    ELSE [NoProbe EXCEPT !.pc = "return"]]
    /\ UNCHANGED <<tests, app, cb, helper, max_blocks, ser, ret, counter,
                   call, clock, other, fed, resets, scen>>

\* one turn of the loop of _get_test_data, the outcome of read_data_single
\* being o
get_test_data_read(p, o) ==
    IF o.kind = "packet"
    THEN [p EXCEPT !.result = update(@, o.packet),
                   !.packets = Append(@, o.packet),
                   !.reads = @ + 1, !.i = @ + 1]
    ELSE IF o.kind = "None"
    THEN [p EXCEPT !.reads = @ + 1, !.i = @ + 1]
    ELSE IF o.kind = "InputReadException"
    THEN [p EXCEPT !.reads = @ + 1, !.i = @ + 1, !.swallowed = @ + 1]
    ELSE [p EXCEPT !.reads = @ + 1, !.pc = "return", !.is_none = TRUE,
                   !.result = EmptyDict, !.exc = o.kind]

GetTestDataRead ==
    /\ ctl.probe.pc = "loop"
    /\ ctl.probe.i < Probes
    /\ \E o \in ProbeOutcomes :
          ctl' = [ctl EXCEPT !.probe = get_test_data_read(@, o)]
    /\ UNCHANGED <<tests, app, cb, helper, max_blocks, ser, ret, counter,
                   call, clock, other, fed, resets, scen>>

\* the loop is over: _get_test_data and read_data_to_test return
GetTestDataReturn ==
    /\ ctl.probe.pc = "loop"
    /\ ctl.probe.i = Probes
    /\ ctl' = [ctl EXCEPT !.probe.pc = "return"]
    /\ UNCHANGED <<tests, app, cb, helper, max_blocks, ser, ret, counter,
                   call, clock, other, fed, resets, scen>>

NextProbe == ReadDataToTest \/ GetTestDataRead \/ GetTestDataReturn

SpecProbe == InitProbe /\ [][NextProbe]_vars

(***************************************************************************)
(* PacketStats: the slots of set_loop_packet_stats (SpecStats)              *)
(***************************************************************************)

\* calls of set_loop_packet_stats of a run
MaxCalls == 2

\* the packet {chr(64 + i): '1'}
StatsPacket(i) == AsDict(<< << <<64 + i>>, <<49>> >> >>)

\* the packets given to set_loop_packet_stats: the first two of the device
\* and one that it does not emit
StatsPackets ==
    {StatsPacket(1), StatsPacket(2), StatsPacket(MAX_STAT_PACKETS + 1)}

\* the indexes given to set_loop_packet_stats
StatsIndexes == 0..MAX_STAT_PACKETS

RECURSIVE Registered(_)
\* the slots after set_loop_packet_stats(i, StatsPacket(i + 1)) for i = 0,
\* .., k - 1
Registered(k) ==
    IF k = 0 THEN <<>>
    ELSE set_loop_packet_stats(Registered(k - 1), k - 1, StatsPacket(k)).stats

InitStats ==
    /\ NoReader
    /\ helper = NewHelper
    /\ max_blocks = NoneBlocks
    /\ tests = NoTester
    /\ ser = <<>>
    /\ ret = NoRet
    /\ fed = NoFed
    /\ resets = 0
    /\ cb = NoCallback
    /\ ctl = NoController
    /\ scen = <<>>
    /\ \E k \in 0..MAX_STAT_PACKETS :
          app = [NoApp EXCEPT !.packets_stats.stats = Registered(k)]

\* a call of set_loop_packet_stats(index, packet)
SetLoopPacketStats ==
    /\ app.packets_stats.call.calls < MaxCalls
    /\ \E index \in StatsIndexes, packet \in StatsPackets :
          LET st == set_loop_packet_stats(app.packets_stats.stats, index,
                                          packet)
          IN  app' = [app EXCEPT
                        !.packets_stats.stats = st.stats,
                        !.packets_stats.call =
                            [index |-> index, packet |-> packet,
                             result |-> st.result, exc |-> st.exc,
                             before |-> app.packets_stats.stats,
                             calls |-> @.calls + 1]]
    /\ UNCHANGED <<tests, helper, max_blocks, ser, ret, counter, call, clock, other,
                   fed, resets, scen, cb, ctl>>

NextStats == SetLoopPacketStats

SpecStats == InitStats /\ [][NextStats]_vars

(***************************************************************************)
(* read_data_single on a line with a hex frame: the bytes taken from the   *)
(* port and the bytes passed to the decoder (SpecLine)                      *)
(***************************************************************************)

\* the frame of {'A': '1'}, alone or after a hex frame
LineScenarios ==
    {sc \in Scenarios :
        /\ sc.pkt = StreamPackets[1]
        /\ sc.ck = "good"
        /\ ~sc.follow}

InitLine ==
    /\ helper = NewHelper
    /\ max_blocks = NoneBlocks
    /\ tests = NoTester
    /\ app = NoApp
    /\ ctl = NoController
    /\ cb = NoCallback
    /\ scen \in LineScenarios
    /\ ser = Line(scen)
    /\ ret = NoRet
    /\ NoReader
    /\ fed = NoFed
    /\ resets = 0

\* an iteration of the loop of read_data_single; fed counts the bytes that
\* get_serial_packet has passed to input_read
LineReadDataSingleLoop ==
    /\ call.pc = "run"
    /\ clock' \in Later(clock)
    /\ \E ev \in Events(ser) : \E ev2 \in MessageEvents(helper, ser, ev) :
          /\ Becomes(Loop(Self, max_blocks, ev, ev2, clock'))
          /\ fed' = IF ev = "byte" THEN FedMore(fed, <<Head(ser)>>) ELSE fed
    /\ UNCHANGED <<tests, app, ctl, cb, max_blocks, other, resets, scen>>

NextLine == ReadDataSingle \/ LineReadDataSingleLoop

SpecLine == InitLine /\ [][NextLine]_vars

-----------------------------------------------------------------------------
(* Claims on read_data_single (Spec, SpecLive, SpecPair, SpecSync)                    *)

\* the port has just returned zero bytes to a call under way
ZeroBytesRead == call.pc = "run" /\ call'.event = "none"

\* C7 as claimed: in read_data_single a read of the port that returns zero
\* bytes leaves the decoder state unchanged, raises nothing and is not
\* counted as a block error.
C7_ZeroBytesAsClaimed ==
    [][ZeroBytesRead =>
          /\ helper' = helper
          /\ ret'.kind = "None"
          /\ counter'.block_errors = counter.block_errors]_vars

\* C7 amended: in read_data_single a read of the port that returns zero
\* bytes makes input_read raise InputReadException; the decoder is reset,
\* and the call re-raises the exception when is_max_read_error(
\* max_block_errors, block errors counted) holds, else counts a block error
\* and goes on reading.
C7_ZeroBytes ==
    [][ZeroBytesRead =>
          /\ ret'.kind = "InputReadException"
          /\ helper' = NewHelper
          /\ ser' = ser
          /\ IF is_max_read_error(call.max_block_errors, counter.block_errors)
             THEN /\ call'.pc = "raise" /\ call'.exc = "InputReadException"
                  /\ counter' = counter
             ELSE /\ call'.pc = "run"
                  /\ counter' = [counter EXCEPT !.block_errors = CounterAdd(@)]]_vars

\* a zero-byte read in the middle of a frame, tolerated
C7_Witness ==
    /\ call.pc = "run" /\ call.event = "none"
    /\ ret.kind = "InputReadException"
    /\ counter.block_errors = 1
    /\ counter.byte > 0
    /\ helper = NewHelper
    /\ ser # <<>>

\* C8 as claimed: budget -1 never ends the call on its class of error,
\* budget 0 re-raises the first error, budget n > 0 re-raises only when n
\* errors of the class have been tolerated before.
C8_ErrorBudgets ==
    /\ (call.pc = "raise" /\ call.exc = "InputReadException") =>
          /\ call.max_block_errors # -1
          /\ counter.block_errors >= call.max_block_errors
    /\ (call.pc = "raise" /\ call.exc = "PacketReadException") =>
          /\ call.max_packet_errors # -1
          /\ counter.packet_errors >= call.max_packet_errors
    /\ (call.pc = "run" /\ ret.kind = "InputReadException") =>
          call.max_block_errors # 0
    /\ (call.pc = "run" /\ ret.kind = "PacketReadException") =>
          call.max_packet_errors # 0

\* C9 as claimed: a call of read_data_single with a timeout t > 0 on a
\* ready port ends, whatever the port does and whatever the budgets are,
\* provided time passes.
C9_Terminates == (call.pc = "run") ~> (call.pc # "run")

\* x is at least y as a budget in the order of the integers
NumericAtLeast(x, y) == x >= y

\* x is at least y as a budget, -1 (never exit) being the largest
BudgetAtLeast(x, y) == x = -1 \/ (y # -1 /\ x >= y)

\* C10 as claimed: with budgets b' >= b and p' >= p (as integers) the run
\* with the larger budgets never fails at a strictly earlier byte than the
\* run with the smaller ones.
C10_MonotoneAsClaimed ==
    ( /\ NumericAtLeast(other.call.max_block_errors, call.max_block_errors)
      /\ NumericAtLeast(other.call.max_packet_errors, call.max_packet_errors)
      /\ other.call.pc = "raise" )
    => call.pc = "raise"

\* C10 amended: the same with the budgets compared as budgets, -1 (never
\* exit) being larger than every n >= 0.
C10_Monotone ==
    ( /\ BudgetAtLeast(other.call.max_block_errors, call.max_block_errors)
      /\ BudgetAtLeast(other.call.max_packet_errors, call.max_packet_errors)
      /\ other.call.pc = "raise" )
    => call.pc = "raise"

\* the run with the smaller budgets has failed on a zero-byte read in the
\* middle of a frame, the run with the larger ones goes on
C10_Witness ==
    /\ BudgetAtLeast(other.call.max_block_errors, call.max_block_errors)
    /\ BudgetAtLeast(other.call.max_packet_errors, call.max_packet_errors)
    /\ call.pc = "raise" /\ call.exc = "InputReadException"
    /\ call.max_block_errors = 0 /\ other.call.max_block_errors = -1
    /\ other.call.pc = "run"
    /\ other.counter.block_errors = 1
    /\ counter.byte > 0

C12_NoChecksumKey ==
    /\ ChecksumKey \notin DOMAIN helper.dict
    /\ ret.kind = "packet" => ChecksumKey \notin DOMAIN ret.packet

\* a packet delivered from a line whose first frame had a field named
\* 'Checksum'
C12_Witness ==
    /\ \E i \in DOMAIN scen.pkt : scen.pkt[i][1] = ChecksumKey
    /\ ret.kind = "packet"
    /\ DictLen(ret.packet) >= 1

\* C13: every packet read_data_single returns has at least one field; a
\* frame made of the Checksum block alone, its checksum byte good, is not
\* returned as an empty packet.
C13_AtLeastOneField ==
    call.pc = "return" => DictLen(call.packet) >= 1

\* C14: a \r or \n passed while the decoder is in IN_KEY, or a \n passed
\* while it is in IN_VALUE, makes input_read raise PacketReadException, never
\* InputReadException, and leaves the field map as it was.
C14_UnexpectedHeader ==
    [][\A byte \in {<<Header1>>, <<Header2>>} :
          (is_unexpected_header(helper, byte[1]) /\ InputRead(byte)) =>
              /\ ret'.kind = "PacketReadException"
              /\ helper'.dict = helper.dict]_vars

\* the packets of the first n frames of the line
ExpectedCalls(n) == [i \in 1..n |-> AsDict(StreamPacket(scen, i))]

\* C15: read_data_callback with max_loops = m > 0, on a line whose frames are
\* all good, passes to the callback the packets of the first m frames, in
\* their order and none of them empty, and returns right after the m-th,
\* the frames that follow left on the line.
C15_MaxLoops ==
    (scen.bad = 0 /\ cb.pc # "idle" /\ cb.exc # "SerialConnectionException") =>
        /\ cb.pc # "raise"
        /\ Len(cb.calls) <= cb.max_loops
        /\ cb.calls = ExpectedCalls(Len(cb.calls))
        /\ \A i \in DOMAIN cb.calls : DictLen(cb.calls[i]) >= 1
        /\ Len(cb.calls) = cb.max_loops <=>
              (cb.pc = "return" /\ ser = StreamFrom(scen, cb.max_loops + 1))

\* ... which holds when max_loops is at most MAX_COUNTER_VALUE
MaxLoopsUpToMaxCounter ==
    cb.max_loops <= MAX_COUNTER_VALUE => C15_MaxLoops

\* the first port of the enumeration that is the device, 0 if there is none
FirstDevice(ports) ==
    LET devices == {i \in DOMAIN ports : scen.status[ports[i]] = "device"}
    IN  IF devices = {} THEN NoPort
        ELSE ports[CHOOSE i \in devices : \A j \in devices : i <= j]

\* C16: wait_or_search_serial_connection, on a controller that has a
\* connection and serial tests, ends either returning True, the connection
\* open on the first port of the enumeration whose data passes the tests, or
\* raising ReadTimeoutException after more than timeout; a port that cannot
\* be opened or whose data is rejected does not end the search.
C16_WaitOrSearch ==
    (scen.has_serial_test /\ ctl.pc \in {"return", "raise"}) =>
        \/ /\ ctl.pc = "return"
           /\ ctl.ser.is_open
           /\ ctl.ser.port = FirstDevice(ctl.ports)
        \/ /\ ctl.pc = "raise"
           /\ ctl.exc = "ReadTimeoutException"
           /\ clock > ctl.timeout

\* C17: when test_serial_port(port) returns False because the data of the
\* port was rejected, the configured port and the configured timeout are
\* what they were before the call and the connection is closed.
C17_TransactionalRebind ==
    (/\ ctl.last.op = "test_serial_port"
     /\ ctl.last.port \in Ports
     /\ ctl.last.exc = "" /\ ~ctl.last.result) =>
        /\ ctl.conf = ctl.last.before
        /\ ~ctl.ser.is_open

\* another port than the configured one was tried, with a read timeout set
C17_Witness ==
    /\ ctl.last.op = "test_serial_port"
    /\ ctl.last.port \in Ports
    /\ ctl.last.exc = "" /\ ~ctl.last.result
    /\ ctl.last.port # ctl.last.before.serial_port
    /\ ctl.last.before.timeout > 0

\* C18: when search_serial_port or wait_or_search_serial_connection returns
\* True, the connection is open on a port of the last enumeration, and that
\* port is the configured one.
C18_ReconnectionSafety ==
    (\/ ctl.pc = "return"
     \/ /\ ctl.last.op = "search_serial_port"
        /\ ctl.last.exc = "" /\ ctl.last.result) =>
        /\ ctl.ser.is_open
        /\ \E i \in DOMAIN ctl.ports : ctl.ports[i] = ctl.ser.port
        /\ ctl.conf.serial_port = ctl.ser.port

\* the search returned on the second port of the enumeration, the first one
\* rejected
C18_Witness ==
    /\ ctl.pc = "return"
    /\ Len(ctl.ports) >= 2
    /\ ctl.ser.port = ctl.ports[2]

C20_WholeSeconds ==
    (/\ app.last.op = "is_time_to_read_serial"
     /\ app.min_interval = 1
     /\ app.last.before # NoCache
     /\ app.last.before.time % Second = 0
     /\ app.last.now % Second = 0
     /\ app.last.now >= app.last.before.time) =>
        (app.last.result <=>
            app.last.now >= app.last.before.time + 2 * Second)

\* the map with the keys of all the packets of ps, each key with its value in
\* the last packet that has it
LastValues(ps) ==
    [k \in UNION {DOMAIN ps[i] : i \in DOMAIN ps} |->
        LET last == CHOOSE i \in DOMAIN ps :
                        /\ k \in DOMAIN ps[i]
                        /\ \A j \in DOMAIN ps : k \in DOMAIN ps[j] => j <= i
        IN  ps[last][k]]

\* C21: the snapshot of a fresh round over the packets P_0 .. P_(n-1), read
\* in that order, has the union of their keys, each key with the value of
\* the last packet of the round that has it; read_data returns that snapshot.
C21_RoundAggregation ==
    (app.rd.pc # "idle" /\ app.last.op = "read_data") =>
        /\ app.rd.packets = <<>> => app.data_cache = NoCache
        /\ app.rd.packets # <<>> =>
              /\ app.data_cache # NoCache
              /\ app.data_cache.data = LastValues(app.rd.packets)
        /\ (app.rd.pc = "return" /\ app.last.result) =>
              app.last.data = LastValues(app.rd.packets)

\* a round that has returned a snapshot of two packets with the key 'A',
\* the second with fewer keys than the first
C21_Witness ==
    /\ app.rd.pc = "return"
    /\ app.last.op = "read_data"
    /\ app.last.result
    /\ Len(app.rd.packets) = 2
    /\ DOMAIN app.rd.packets[1] = {<<65>>, <<80>>}
    /\ DOMAIN app.rd.packets[2] = {<<65>>}
    /\ app.last.data[<<65>>] = app.rd.packets[2][<<65>>]
    /\ app.last.data[<<80>>] = app.rd.packets[1][<<80>>]

C28_StampAtClose ==
    (app.rd.pc # "idle" /\ app.last.op = "read_data" /\ app.rd.packets # <<>>)
        => app.data_cache.time >= app.rd.merged_at

\* C29: update_data_cache(data) on an existing cache merges the keys of data
\* into the cached map and keeps the time stamp; set_data_cache(data) with a
\* non-empty map replaces the map and the time stamp; each of them returns
\* False for an empty or None map, and update_data_cache then leaves an
\* existing cache as it was.
C29_CacheOperations ==
    LET l == app.last
        c == app.data_cache
    IN  /\ (l.op = "update_data_cache" /\ l.before # NoCache) =>
              IF l.data # EmptyDict
              THEN /\ l.result
                   /\ c.time = l.before.time
                   /\ DOMAIN c.data = DOMAIN l.before.data \cup DOMAIN l.data
                   /\ \A k \in DOMAIN c.data :
                        c.data[k] = IF k \in DOMAIN l.data THEN l.data[k]
                                    ELSE l.before.data[k]
              ELSE ~l.result /\ c = l.before
        /\ (l.op = "update_data_cache" /\ l.before = NoCache) =>
              (l.result <=> l.data # EmptyDict)
        /\ l.op = "set_data_cache" =>
              IF l.data # EmptyDict
              THEN l.result /\ c = [time |-> l.now, data |-> l.data]
              ELSE ~l.result

\* update_data_cache has merged a new key into a map cached earlier
C29_Witness ==
    /\ app.last.op = "update_data_cache"
    /\ app.last.before # NoCache
    /\ app.last.before.time < app.last.now
    /\ app.last.result
    /\ DOMAIN app.last.before.data # DOMAIN app.data_cache.data

\* C30: a VeReadException raised by the read of a slot of a round adds one
\* to serial_read_errors and does not end the round: every slot of the
\* round is read, and the packets read before and after the failure are all
\* merged into the snapshot. A round in which a read has raised is left
\* early only by the VedirectException of a failed reconnection.
C30_ReadErrorContinues ==
    /\ app.rd.pc \in {"loop", "return", "raise"} =>
          /\ app.packets_stats.serial_read_errors
                >= app.rd.errors_before + app.rd.raised
          /\ app.rd.reads = app.rd.i
          /\ app.rd.pc \in {"return", "raise"} =>
                /\ app.rd.reads = app.rd.nb_packets
                /\ app.rd.packets # <<>> =>
                      app.data_cache.data = LastValues(app.rd.packets)
    /\ (app.rd.pc = "abort" /\ app.rd.raised > 0) =>
          app.last.exc = "VedirectException"

\* a sub-test holds on a packet: a value test when the packet has its key
\* with the expected value, a columns test when the packet has all its keys
SubTestHolds(item, packet) ==
    IF item.typeTest = "value"
    THEN item.key \in DOMAIN packet /\ packet[item.key] = item.value
    ELSE \A i \in DOMAIN item.keys : item.keys[i] \in DOMAIN packet

\* C23: for every validated configuration and every packet run_serial_tests
\* returns True iff every sub-test holds on the packet; a missing key or a
\* None or empty packet gives False, and nothing is raised.
C23_RunSerialTests ==
    (tests.last.op = "run_serial_tests" /\ tests.tests # NoTests) =>
        /\ tests.last.exc = ""
        /\ tests.last.result <=>
              \A i \in DOMAIN tests.tests :
                  SubTestHolds(tests.tests[i][2], tests.serial_data)
        /\ tests.serial_data = EmptyDict => ~tests.last.result

\* a value test and a columns test that both hold on the packet
C23_Witness ==
    /\ tests.last.op = "run_serial_tests"
    /\ tests.last.result
    /\ Len(tests.tests) = 2
    /\ tests.tests[1][2].typeTest = "value"
    /\ tests.tests[2][2].typeTest = "columns"

\* a sub-test is well formed for its type
WellFormed(item) ==
    /\ item.not_null
    /\ item.typeTest = "value" =>
          is_serial_key_pattern(item.key) /\ item.value # None
    /\ item.typeTest = "columns" => item.keys # <<>>

\* C24: validate_serial_tests(spec) returns True iff the spec is not empty
\* and every sub-test has a name of the key pattern, the typeTest 'value'
\* or 'columns' and is well formed for its type; a sub-test with another
\* typeTest or with an invalid name raises SettingInvalidException; a
\* validation that fails leaves the stored tests of the helper unchanged.
C24_ValidateSerialTests ==
    LET l == tests.last
        d == tests.data
    IN  l.op \in {"validate_serial_tests", "set_serial_tests"} =>
          /\ l.result <=>
                /\ d # NoTests
                /\ \A i \in DOMAIN d :
                      /\ is_key_pattern(d[i][1])
                      /\ d[i][2].typeTest \in {"value", "columns"}
                      /\ WellFormed(d[i][2])
          /\ (\E i \in DOMAIN d :
                 \/ ~is_key_pattern(d[i][1])
                 \/ d[i][2].typeTest \notin {"value", "columns"})
                => l.exc = "SettingInvalidException"
          /\ tests.tests = IF l.op = "set_serial_tests" /\ l.result
                           THEN d ELSE l.before

\* set_serial_tests on a helper that has tests, with a spec whose second
\* sub-test has an unknown typeTest
C24_Witness ==
    /\ tests.last.op = "set_serial_tests"
    /\ tests.last.exc = "SettingInvalidException"
    /\ tests.last.before = DefaultTests
    /\ Len(tests.data) = 2
    /\ tests.data[1][2].typeTest = "value"
    /\ tests.data[2][2].typeTest = "badType"
    /\ is_key_pattern(tests.data[2][1])

\* C25: every counter of the reader stays within 0 .. MAX_COUNTER_VALUE
\* under any sequence of add() and reset(); add() adds exactly 1 below the
\* maximum, and add() at the maximum wraps the value to 0.
C25_CounterWrap ==
    [][\A name \in CounterNames :
          /\ counter'[name] \in 0..MAX_COUNTER_VALUE
          /\ CounterHelperAdd(name) =>
                counter'[name] = IF counter[name] < MAX_COUNTER_VALUE
                                 THEN counter[name] + 1 ELSE 0]_vars

\* ... the counters do stay within 0 .. MAX_COUNTER_VALUE
CountersInRange ==
    \A name \in CounterNames : counter[name] \in 0..MAX_COUNTER_VALUE

\* C26: read_data_callback with max_packet_errors = n > 0 discards a
\* PacketReadException of read_data_single and goes on while the number of
\* these errors since the start of its loop is within n; it raises the
\* exception again only once that number is above n.
C26_CallbackBudget ==
    (/\ cb.max_packet_errors > 0
     /\ cb.pc = "raise"
     /\ cb.exc = "PacketReadException") =>
        cb.callback_packet_errors + 1 > cb.max_packet_errors

\* C27: read_data_to_test on a ready port makes four reads of one packet
\* and returns the union of the packets it got; an InputReadException or a
\* PacketReadException of one of the reads is swallowed and the reads that
\* remain are made, so that the packets merged before are in the result.
C27_ProbeRead ==
    LET p == ctl.probe
    IN  (/\ p.pc = "return"
         /\ p.reads > 0
         /\ p.exc \in {"", "InputReadException", "PacketReadException"}) =>
            /\ p.reads = Probes
            /\ ~p.is_none
            /\ p.result = LastValues(p.packets)

\* ... which holds when no read raises but InputReadException
ProbeReadInputErrors ==
    LET p == ctl.probe
    IN  (p.pc = "return" /\ p.reads > 0 /\ p.exc = "") =>
            /\ p.reads = Probes
            /\ ~p.is_none
            /\ p.result = LastValues(p.packets)

\* the fingerprints of the packets merged by the round
RoundFingerprints ==
    {get_stats_from_packet(app.rd.packets[i]) : i \in DOMAIN app.rd.packets}

\* C31 as stated: after a round that produced a non-empty snapshot,
\* nb_packets is the number of packets observed in that round (the packets
\* merged, or the distinct ones among them) and is at least 1.
C31_ObservedInRound ==
    (app.rd.pc = "return" /\ app.data_cache # NoCache) =>
        /\ app.packets_stats.nb_packets
              \in {Len(app.rd.packets), Cardinality(RoundFingerprints)}
        /\ app.packets_stats.nb_packets >= 1

\* C31: after a round that produced a non-empty snapshot, nb_packets is the
\* number of stats slots registered by that round and the rounds before it,
\* and is within its valid range, from 1 to MAX_STAT_PACKETS - 1.
C31_InitNbPackets ==
    (app.rd.pc \in {"return", "raise"} /\ app.data_cache # NoCache) =>
        /\ app.packets_stats.initialised
        /\ app.packets_stats.nb_packets = Len(app.packets_stats.stats)
        /\ app.packets_stats.nb_packets >= 1
        /\ app.packets_stats.nb_packets < MAX_STAT_PACKETS

\* a first round of three reads has merged one packet and left nb_packets
\* at 1
C31_Witness ==
    /\ app.rd.pc = "return"
    /\ app.rd.rounds = 1
    /\ app.data_cache # NoCache
    /\ app.packets_stats.configured = 3
    /\ Len(app.rd.packets) = 1
    /\ app.packets_stats.nb_packets = 1

\* C32: for each stats slot nb_linear is the number of consecutive linear
\* observations since the last non-linear one, and nb_resets goes up by one
\* only when a non-linear observation follows a linear one: a second
\* non-linear observation in a row leaves nb_resets as it is.
C32_LinearCounts ==
    LET c == app.packets_stats.call
        observed == c.calls > 0 /\ c.exc = "" /\ c.index < Len(c.before)
        b == c.before[c.index + 1]
        s == app.packets_stats.stats[c.index + 1]
    IN  observed =>
           IF s.is_linear
           THEN s.nb_linear = b.nb_linear + 1 /\ s.nb_resets = b.nb_resets
           ELSE /\ s.nb_linear = 0
                /\ s.nb_resets = IF b.is_linear THEN b.nb_resets + 1
                                 ELSE b.nb_resets

\* the call has met a fingerprint that no slot has
Unseen(c) == get_packet_index(c.before, c.packet) = -1

C34_SetLoopPacketStats ==
    LET c == app.packets_stats.call
    IN  (c.calls > 0 /\ can_add_stats(c.before)) =>
           c.exc = "" /\ c.result

\* C35: during the search of a port at most one serial handle is open at
\* every moment: test_serial_port closes the handle it has before it opens
\* a candidate, and does not open again a candidate that is the port
\* already open.
C35_OneHandle ==
    /\ ctl.handles <= 1
    /\ ctl.peak <= 1
    /\ ctl.handles = IF ctl.ser.is_open THEN 1 ELSE 0
    /\ (ctl.last.op = "test_serial_port"
           /\ ctl.last.ser_before.is_open
           /\ ctl.last.ser_before.port = ctl.last.port) => ~ctl.opened

\* test_serial_port has opened a candidate while another port was open
C35_Witness ==
    /\ ctl.last.op = "test_serial_port"
    /\ ctl.last.ser_before.is_open
    /\ ctl.last.ser_before.port # ctl.last.port
    /\ ctl.opened
    /\ ctl.ser.is_open
    /\ ctl.ser.port = ctl.last.port
    /\ ctl.handles = 1

\* C36: no byte is lost between the port and the decoder: during
\* read_data_single every byte read from the serial port has been passed to
\* the decoder, once, and input_read itself reads nothing from the port,
\* also when it raises for an unexpected header.
C36_NoByteLost ==
    fed.n = Len(Line(scen)) - Len(ser)

\* C37: a hex marker received while a key or a value is being accumulated
\* discards the partial block: when the decoder comes back from HEX to the
\* text states its key and value buffers and its field map are empty.
C37_HexDiscards ==
    [][(helper.state = HEX /\ helper'.state # HEX) =>
          /\ helper'.key = <<>>
          /\ helper'.value = <<>>
          /\ helper'.dict = EmptyDict]_vars

\* C38: once nb_packets has been re-initialised from the stats it never
\* increases: the slot index of a round stays below nb_packets, which is the
\* number of registered slots, so that no slot is registered any more and
\* every later round reads and merges at most nb_packets packets.
C38_NbPacketsNeverGrows ==
    [][app.packets_stats.initialised =>
          /\ app'.packets_stats.nb_packets <= app.packets_stats.nb_packets
          /\ Len(app'.packets_stats.stats) = Len(app.packets_stats.stats)
          /\ app'.packets_stats.nb_packets = Len(app'.packets_stats.stats)
          /\ app'.rd.pc = "loop" =>
                /\ app'.rd.i <= app'.rd.nb_packets
                /\ app'.rd.nb_packets = app.packets_stats.nb_packets]_vars

\* a second round has merged one packet only, the first round having left
\* nb_packets at 1 where 3 were configured
C38_Witness ==
    /\ app.rd.rounds = 2
    /\ app.rd.pc = "return"
    /\ app.packets_stats.initialised
    /\ app.packets_stats.configured = 3
    /\ app.rd.nb_packets = 1
    /\ app.rd.reads = 1
    /\ Len(app.rd.packets) = 1
    /\ app.packets_stats.nb_packets = 1

\* C39: when the opening of a candidate port raises inside test_serial_port
\* (SerialVeException, OpenSerialVeException or SerialConfException), the
\* configured port and read timeout are, as the exception leaves
\* test_serial_port, what they were before the attempt.
C39_FailedOpenKeepsConf ==
    (ctl.last.op = "test_serial_port"
        /\ ctl.last.exc \in {"SerialVeException", "OpenSerialVeException",
                             "SerialConfException"}) =>
        ctl.conf = ctl.last.before

\* C40: whenever read_data reports from_cache = true the snapshot it returns
\* is a non-empty map, the one stored by the last round that ran to its end;
\* None is returned only with from_cache = false, after a fresh round that
\* merged no packet, the snapshot of before being discarded.
C40_FromCache ==
    app.last.op = "read_data" =>
        /\ app.last.is_cache =>
              /\ app.last.data # EmptyDict
              /\ app.last.data = app.rd.stored
        /\ (~app.last.is_cache /\ app.rd.pc = "return"
                 /\ app.last.data = EmptyDict) =>
              /\ app.rd.packets = <<>>
              /\ app.data_cache = NoCache

====
